---- MODULE Spec2Model ----
(***************************************************************************)
(* Backup / restore orchestration of strato-server-manager                 *)
(* (src/lib/restore.py, src/lib/backup.py, src/lib/utils.py,               *)
(* src/lib/config.py).                                                     *)
(*                                                                         *)
(* One service (nginx or mailcow, fixed per behaviour: the services have   *)
(* disjoint install paths, repositories and compose projects) is backed up *)
(* and restored by a bounded number of consecutive runs.  A run is one     *)
(* call of restore_nginx / restore_mailcow / backup_nginx / backup_mailcow;*)
(* it advances one external operation at a time (pc), every external       *)
(* command ending "ok" (exit 0), "nonzero" (CalledProcessError) or         *)
(* "timeout" (TimeoutExpired).                                             *)
(*                                                                         *)
(* Archives are named by their creation time (the host and the service of  *)
(* "<hostname>-<service>-<timestamp>" are fixed per repository).           *)
(* A directory is a record [exists, c, whole]: c identifies its content,   *)
(* whole is FALSE for a partially written tree.                            *)
(***************************************************************************)
EXTENDS Integers, Sequences, FiniteSets, TLC

\* ---------------------------------------------------------------- bounds
MaxRuns == 2
MaxInitArchives == 2

MaxClock == MaxInitArchives + MaxRuns

\* ------------------------------------------------------------- constants
Services == {"nginx", "mailcow"}
Outcomes == {"ok", "nonzero", "timeout"}
Latest == 0
NginxRestoreGB == 5
MailcowRestoreGB == 20
NginxBackupGB == 5
MailcowBackupGB == 20
FreeGB == {0, 5, 20}

VARIABLES
    svc,          \* the service of this behaviour
    repo,         \* archives of the service's repository: set of [t, c]
    install,      \* the install directory of the service
    running,      \* whether the service's containers are running
    snapshots,    \* "<path>.pre-restore.<ts>" copies: set of [ts, d, whole]
    now,          \* the clock (seconds), read by datetime.now()
    runs,         \* number of runs started
    pc,           \* position of the current run
    op,           \* "restore", "backup" or "none"
    backup_name,  \* restore: the backup_name argument
    verify,       \* backup: the verify argument
    borg_env,     \* backup: [key, secret] of the BackupManager's borg_env
    listing,      \* restore: the list returned by list_remote_backups
    selected,     \* restore: selected_backup (<<>> before selection)
    backup_path,  \* restore: result of _backup_existing_installation (<<>> is None)
    temp,         \* restore: the temp_dir: "absent", "empty", "partial", "full"
    result,       \* "none", "True", "False", "raised" (an exception escaped)
    trace,        \* the operations of the run and how each ended: sequence of [o, out]
    checks,       \* backup: the preflight checks evaluated, in order
    pre           \* [install, running, snapshots] when the run started

VARIABLES
    crontab,      \* root's OS job table: [exists, lines]
    temp_file,    \* schedules/crontab.tmp: <<>> (absent) or <<lines>>
    calls,        \* number of SchedulingManager calls made
    call,         \* the last call: [fn, arg, schedule, ret, wrote]
    before,       \* crontab when the last call began
    proc,         \* concurrent calls: process -> its locals
    log,          \* concurrent schedule calls: the steps taken, in order
    cron_in,      \* _validate_cron_schedule: the schedule argument
    cron_out,     \* _validate_cron_schedule: "none" or the value returned
    retention,    \* config 'borg.retention': [daily, weekly, monthly]
    settings,     \* the retention counts in settings.yaml
    edits,        \* number of _set_retention calls made
    edit,         \* the last _set_retention call: its inputs and the counts before it
    repos,        \* batch cleanup: service -> archives of its repository
    batch         \* batch cleanup: the locals of handle_cleanup_backups

envvars == <<svc, repo, install, running, snapshots, now, runs>>
runvars == <<pc, op, backup_name, verify, borg_env, listing, selected,
             backup_path, temp, result, trace, checks, pre>>
schedvars == <<crontab, temp_file, calls, call, before, proc, log>>
cronvars == <<cron_in, cron_out>>
maintvars == <<retention, settings, edits, edit, repos, batch>>
vars == <<envvars, runvars, schedvars, cronvars, maintvars>>

\* ------------------------------------------------------------ directories
AbsentDir == [exists |-> FALSE, c |-> 0, whole |-> FALSE]
Dir(c) == [exists |-> TRUE, c |-> c, whole |-> TRUE]
PartialDir(c) == [exists |-> TRUE, c |-> c, whole |-> FALSE]

\* os.path.exists(os.path.join(service_path, 'docker-compose.yml')): the
\* compose file is part of every completely written install tree.
HasCompose(d) == d.exists /\ d.whole

Names(archives) == {a.t : a \in archives}
ContentOf(archives, name) == (CHOOSE a \in archives : a.t = name).c
MaxOf(S) == CHOOSE m \in S : \A x \in S : x <= m
MinOf(S) == CHOOSE m \in S : \A x \in S : m <= x
RECURSIVE Ascending(_)
Ascending(S) == IF S = {} THEN <<>> ELSE <<MinOf(S)>> \o Ascending(S \ {MinOf(S)})

\* The orders in which `borg list` may print the archive names S: any
\* archive first (the code reads only the first line and the emptiness of
\* the list), the others by creation time.  Ascending(S), borg's own order,
\* is among them.
ListOrders(S) ==
    IF S = {} THEN {<<>>} ELSE {<<x>> \o Ascending(S \ {x}) : x \in S}
Event(o, out) == [o |-> o, out |-> out]
Range(sq) == {sq[i] : i \in 1..Len(sq)}
Ops(tr) == {e.o : e \in Range(tr)}

\* utils.check_disk_space
check_disk_space(free, required_gb) == free >= required_gb

RequiredRestoreGB(s) == IF s = "nginx" THEN NginxRestoreGB ELSE MailcowRestoreGB

\* --------------------------------------------------------------- restore
\* list_remote_backups: the parsed lines of `borg list --short`, [] on a
\* non-zero exit.  `order` is the order in which borg printed the archives.
list_remote_backups(out, order) == IF out = "ok" THEN order ELSE <<>>

\* restore_nginx / restore_mailcow, "Select backup"
SelectBackup(backups, name) == IF name = Latest THEN backups[1] ELSE name

\* No run of an orchestrator is in progress.
NoRun ==
    /\ pc = "idle"
    /\ op = "none"
    /\ backup_name = Latest
    /\ verify = TRUE
    /\ borg_env = [key |-> FALSE, secret |-> FALSE]
    /\ listing = <<>>
    /\ selected = <<>>
    /\ backup_path = <<>>
    /\ temp = "absent"
    /\ result = "none"
    /\ trace = <<>>
    /\ checks = <<>>
    /\ pre = [install |-> install, running |-> running, snapshots |-> snapshots]

\* No SchedulingManager call has been made; root has no crontab.
NoSchedule ==
    /\ crontab = [exists |-> FALSE, lines |-> <<>>]
    /\ temp_file = <<>>
    /\ calls = 0
    /\ call = [fn |-> "none"]
    /\ before = crontab
    /\ proc = <<>>
    /\ log = <<>>

NoValidation ==
    /\ cron_in = <<>>
    /\ cron_out = "none"

\* config.py 67-74: the default retention counts.
DefaultDaily == 7
DefaultWeekly == 4
DefaultMonthly == 6
DefaultRetention ==
    [daily |-> DefaultDaily, weekly |-> DefaultWeekly, monthly |-> DefaultMonthly]

\* No maintenance menu entry has been used; the configuration is the default
\* one.
NoMaintenance ==
    /\ retention = DefaultRetention
    /\ settings = DefaultRetention
    /\ edits = 0
    /\ edit = [done |-> FALSE]
    /\ repos = <<>>
    /\ batch = [pc |-> "idle"]

Init ==
    /\ svc \in Services
    /\ repo \in SUBSET {[t |-> i, c |-> i] : i \in 1..MaxInitArchives}
    /\ install \in {AbsentDir, Dir(0)}
    /\ running \in {r \in BOOLEAN : r => install.exists}
    /\ snapshots = {}
    /\ now = MaxInitArchives
    /\ runs = 0
    /\ NoRun
    /\ NoSchedule
    /\ NoValidation
    /\ NoMaintenance
\* A new invocation: the operator or the OS scheduler calls restore_<svc>.
StartRestore ==
    /\ pc = "idle"
    /\ runs < MaxRuns
    /\ \E name \in {Latest} \cup 1..MaxClock : backup_name' = name
    /\ runs' = runs + 1
    /\ now' = now + 1
    /\ pc' = "r_list"
    /\ op' = "restore"
    /\ listing' = <<>>
    /\ selected' = <<>>
    /\ backup_path' = <<>>
    /\ temp' = "absent"
    /\ result' = "none"
    /\ trace' = <<>>
    /\ checks' = <<>>
    /\ pre' = [install |-> install, running |-> running, snapshots |-> snapshots]
    /\ UNCHANGED <<svc, repo, install, running, snapshots, verify, borg_env,
                   schedvars, cronvars, maintvars>>

\* restore.py 307-318: list the repository, fail on an empty list, select.
\* A timeout of `borg list` is not caught by list_remote_backups and the call
\* is outside restore_*'s try: the exception escapes the run.
R_List ==
    /\ pc = "r_list"
    /\ \E out \in Outcomes, order \in ListOrders(Names(repo)) :
        /\ trace' = Append(trace, Event("list", out))
        /\ IF out = "timeout"
           THEN /\ result' = "raised"
                /\ pc' = "done"
                /\ UNCHANGED <<listing, selected>>
           ELSE LET backups == list_remote_backups(out, order) IN
                /\ listing' = backups
                /\ IF backups = <<>>
                   THEN /\ result' = "False"
                        /\ pc' = "done"
                        /\ UNCHANGED selected
                   ELSE /\ selected' = <<SelectBackup(backups, backup_name)>>
                        /\ pc' = "r_disk"
                        /\ UNCHANGED result
    /\ UNCHANGED <<envvars, op, backup_name, verify, borg_env, backup_path,
                   temp, checks, pre, schedvars, cronvars, maintvars>>

\* R_Disk without the `return False` of restore.py 323 / 416.
R_Disk_NoReturn ==
    /\ pc = "r_disk"
    /\ \E free \in FreeGB :
        /\ trace' = Append(trace, Event("disk",
                IF check_disk_space(free, RequiredRestoreGB(svc)) THEN "ok" ELSE "nonzero"))
        /\ pc' = IF install.exists THEN "r_stop" ELSE "r_mktemp"
        /\ UNCHANGED result
    /\ UNCHANGED <<envvars, op, backup_name, verify, borg_env, listing,
                   selected, backup_path, temp, checks, pre, schedvars, cronvars, maintvars>>

\* restore.py 320-326: the free-space check, then os.path.exists(install).
R_Disk ==
    /\ pc = "r_disk"
    /\ \E free \in FreeGB :
        IF ~check_disk_space(free, RequiredRestoreGB(svc))
        THEN /\ trace' = Append(trace, Event("disk", "nonzero"))
             /\ result' = "False"
             /\ pc' = "done"
        ELSE /\ trace' = Append(trace, Event("disk", "ok"))
             /\ pc' = IF install.exists THEN "r_stop" ELSE "r_mktemp"
             /\ UNCHANGED result
    /\ UNCHANGED <<envvars, op, backup_name, verify, borg_env, listing,
                   selected, backup_path, temp, checks, pre, schedvars, cronvars, maintvars>>

RFixed == <<svc, repo, now, runs, op, backup_name, verify, borg_env, checks, pre,
            schedvars, cronvars, maintvars>>

\* _stop_service (restore.py 186-217): True without a command when there is
\* no compose file; False on a non-zero exit; a timeout is not caught.
stop_service(d, out) ==
    IF ~HasCompose(d) THEN "True"
    ELSE IF out = "ok" THEN "True"
    ELSE IF out = "nonzero" THEN "False" ELSE "raised"

\* restore.py 327 / 420: self._stop_service(path), its return value unused.
\* The call is outside the try: a timeout escapes the run.
R_Stop ==
    /\ pc = "r_stop"
    /\ \E out \in Outcomes :
        LET r == stop_service(install, out) IN
        /\ trace' = IF HasCompose(install)
                    THEN Append(trace, Event("stop", out)) ELSE trace
        /\ running' = IF HasCompose(install) /\ out = "ok" THEN FALSE ELSE running
        /\ IF r = "raised"
           THEN /\ result' = "raised"
                /\ pc' = "done"
           ELSE /\ pc' = "r_snapshot"
                /\ UNCHANGED result
    /\ UNCHANGED <<RFixed, install, snapshots, listing, selected, backup_path, temp>>

\* shutil.copytree(path, backup_path): complete, or an exception that leaves
\* a partial copy or nothing behind.
CopyOutcomes == {"ok", "partial", "nothing"}

\* _backup_existing_installation (restore.py 153-184): the backup path, or
\* None (<<>>) when the path is absent or the copy raised.
backup_existing_installation(d, ts, copy) ==
    IF ~d.exists THEN <<>>
    ELSE IF copy = "ok" THEN <<ts>> ELSE <<>>

SnapshotsAfterCopy(snaps, d, ts, copy) ==
    IF ~d.exists \/ copy = "nothing" THEN snaps
    ELSE snaps \cup {[ts |-> ts, d |-> d, whole |-> (copy = "ok")]}

\* restore.py 328-331 / 421-424: the safety snapshot.
R_Snapshot ==
    /\ pc = "r_snapshot"
    /\ \E copy \in CopyOutcomes :
        /\ backup_path' = backup_existing_installation(install, now, copy)
        /\ snapshots' = SnapshotsAfterCopy(snapshots, install, now, copy)
        /\ trace' = Append(trace, Event("snapshot", IF copy = "ok" THEN "ok" ELSE "nonzero"))
    /\ pc' = IF svc = "nginx" THEN "r_remove" ELSE "r_mktemp"
    /\ UNCHANGED <<RFixed, install, running, listing, selected, temp, result>>

\* restore.py 333-335 (restore_nginx only): shutil.rmtree(nginx_path),
\* whatever _backup_existing_installation returned.
R_Remove ==
    /\ pc = "r_remove"
    /\ install' = AbsentDir
    /\ trace' = Append(trace, Event("rmtree", "ok"))
    /\ pc' = "r_mktemp"
    /\ UNCHANGED <<RFixed, running, snapshots, listing, selected, backup_path,
                   temp, result>>

\* restore.py 337-339 / 426-428: ensure_directory(temp_dir).
R_MkTemp ==
    /\ pc = "r_mktemp"
    /\ temp' = "empty"
    /\ pc' = "r_extract"
    /\ UNCHANGED <<RFixed, install, running, snapshots, listing, selected,
                   backup_path, result, trace>>

\* _extract_backup (restore.py 103-151): `borg extract` with cwd=extract_path;
\* False on a non-zero exit and on a timeout.
extract_backup(out) == out = "ok"

\* `borg extract repo::name` exits non-zero for a name the repository lacks.
ExtractOutcomes(archives, name) ==
    IF name \in Names(archives) THEN Outcomes ELSE {"nonzero", "timeout"}

\* R_Extract with cwd = the install path instead of temp_dir.
R_Extract_InPlace ==
    /\ pc = "r_extract"
    /\ \E out \in ExtractOutcomes(repo, selected[1]) :
        /\ trace' = Append(trace, Event("extract", out))
        /\ IF extract_backup(out)
           THEN /\ install' = Dir(ContentOf(repo, selected[1]))
                /\ pc' = IF svc = "nginx" THEN "r_locate" ELSE "m_find"
                /\ UNCHANGED result
           ELSE /\ install' = PartialDir(MaxClock)
                /\ result' = "False"
                /\ pc' = "r_finally"
    /\ temp' = "full"
    /\ UNCHANGED <<RFixed, running, snapshots, listing, selected, backup_path>>

\* restore.py 341-344 / 430-433: extract into temp_dir; on failure return
\* False through the finally clause.
R_Extract ==
    /\ pc = "r_extract"
    /\ \E out \in ExtractOutcomes(repo, selected[1]) :
        /\ trace' = Append(trace, Event("extract", out))
        /\ IF extract_backup(out)
           THEN /\ temp' = "full"
                /\ pc' = IF svc = "nginx" THEN "r_locate" ELSE "m_find"
                /\ UNCHANGED result
           ELSE /\ temp' \in {"empty", "partial"}
                /\ result' = "False"
                /\ pc' = "r_finally"
    /\ UNCHANGED <<RFixed, install, running, snapshots, listing, selected, backup_path>>

\* restore.py 346-351 (restore_nginx): the extracted tree must hold the
\* install path.
R_Locate ==
    /\ pc = "r_locate"
    /\ \E found \in BOOLEAN :
        IF found
        THEN /\ pc' = "r_move"
             /\ UNCHANGED result
        ELSE /\ result' = "False"
             /\ pc' = "r_finally"
    /\ UNCHANGED <<RFixed, install, running, snapshots, listing, selected,
                   backup_path, temp, trace>>

\* restore.py 353-359 (restore_nginx): shutil.move(extracted, nginx_path).
\* An exception of the move is caught by `except Exception` (376-378).
R_Move ==
    /\ pc = "r_move"
    /\ \E mv \in {"ok", "partial", "nothing"} :
        /\ trace' = Append(trace, Event("move", IF mv = "ok" THEN "ok" ELSE "nonzero"))
        /\ IF mv = "ok"
           THEN /\ install' = Dir(ContentOf(repo, selected[1]))
                /\ temp' = "empty"
                /\ pc' = "r_start"
                /\ UNCHANGED result
           ELSE /\ install' = IF mv = "partial"
                              THEN PartialDir(ContentOf(repo, selected[1]))
                              ELSE install
                /\ temp' = "partial"
                /\ result' = "False"
                /\ pc' = "r_finally"
    /\ UNCHANGED <<RFixed, running, snapshots, listing, selected, backup_path>>

\* restore.py 435-456 (restore_mailcow): find the extracted "mailcow-*"
\* directory and the restore script of the installed Mailcow.
M_Find ==
    /\ pc = "m_find"
    /\ \E found \in BOOLEAN :
        IF found /\ HasCompose(install)
        THEN /\ pc' = "m_restore"
             /\ UNCHANGED result
        ELSE /\ result' = "False"
             /\ pc' = "r_finally"
    /\ UNCHANGED <<RFixed, install, running, snapshots, listing, selected,
                   backup_path, temp, trace>>

\* restore.py 458-471 (restore_mailcow): run Mailcow's restore script; a
\* non-zero exit or a timeout is caught by `except Exception` (488-490).
M_Restore ==
    /\ pc = "m_restore"
    /\ \E out \in Outcomes :
        /\ trace' = Append(trace, Event("script", out))
        /\ IF out = "ok"
           THEN /\ install' = Dir(ContentOf(repo, selected[1]))
                /\ pc' = "r_start"
                /\ UNCHANGED result
           ELSE /\ install' \in {install, PartialDir(ContentOf(repo, selected[1]))}
                /\ result' = "False"
                /\ pc' = "r_finally"
    /\ UNCHANGED <<RFixed, running, snapshots, listing, selected, backup_path, temp>>

\* _start_service (restore.py 219-250): as _stop_service, with `up -d`.
start_service(d, out) ==
    IF ~HasCompose(d) THEN "True"
    ELSE IF out = "ok" THEN "True"
    ELSE IF out = "nonzero" THEN "False" ELSE "raised"

\* restore.py 361-362 / 473-474: self._start_service(path), return value
\* unused; the call is inside the try, so a timeout reaches `except Exception`.
R_Start ==
    /\ pc = "r_start"
    /\ \E out \in Outcomes :
        LET r == start_service(install, out) IN
        /\ trace' = IF HasCompose(install)
                    THEN Append(trace, Event("start", out)) ELSE trace
        /\ running' = IF HasCompose(install) /\ out = "ok" THEN TRUE ELSE running
        /\ IF r = "raised"
           THEN /\ result' = "False"
                /\ pc' = "r_finally"
           ELSE /\ pc' = "r_verify"
                /\ UNCHANGED result
    /\ UNCHANGED <<RFixed, install, snapshots, listing, selected, backup_path, temp>>

\* _verify_service_running (restore.py 252-289): True when `compose ps`
\* lists a running service, False when it lists none or exits non-zero; a
\* timeout is not caught.
verify_service_running(d, out, isRunning) ==
    IF ~HasCompose(d) THEN "True"
    ELSE IF out = "ok" THEN (IF isRunning THEN "True" ELSE "False")
    ELSE IF out = "nonzero" THEN "False" ELSE "raised"

\* restore.py 368-378 / 480-490: both branches of the verification return
\* True; an exception returns False.
RestoreResult(v) == IF v = "raised" THEN "False" ELSE "True"

R_Verify ==
    /\ pc = "r_verify"
    /\ \E out \in Outcomes :
        /\ trace' = IF HasCompose(install)
                    THEN Append(trace, Event("verify", out)) ELSE trace
        /\ result' = RestoreResult(verify_service_running(install, out, running))
    /\ pc' = "r_finally"
    /\ UNCHANGED <<RFixed, install, running, snapshots, listing, selected,
                   backup_path, temp>>

\* R_Finally removing temp_dir at the end of a successful run only.
R_Finally_OnSuccess ==
    /\ pc = "r_finally"
    /\ temp' = IF result = "True" THEN "absent" ELSE temp
    /\ pc' = "done"
    /\ UNCHANGED <<RFixed, install, running, snapshots, listing, selected,
                   backup_path, result, trace>>

\* R_Finally with an automatic rollback: a failed run copies the safety
\* snapshot back over the install path.
R_Finally_Rollback ==
    /\ pc = "r_finally"
    /\ temp' = "absent"
    /\ pc' = "done"
    /\ install' = IF result = "False" /\ backup_path # <<>> THEN pre.install ELSE install
    /\ UNCHANGED <<RFixed, running, snapshots, listing, selected,
                   backup_path, result, trace>>

\* restore.py 379-382 / 491-494: finally, remove temp_dir; the run returns.
R_Finally ==
    /\ pc = "r_finally"
    /\ temp' = "absent"
    /\ pc' = "done"
    /\ UNCHANGED <<RFixed, install, running, snapshots, listing, selected,
                   backup_path, result, trace>>

RestoreNext ==
    \/ StartRestore
    \/ R_List
    \/ R_Disk
    \/ R_Stop
    \/ R_Snapshot
    \/ R_Remove
    \/ R_MkTemp
    \/ R_Extract
    \/ R_Locate
    \/ R_Move
    \/ M_Find
    \/ M_Restore
    \/ R_Start
    \/ R_Verify
    \/ R_Finally

\* ---------------------------------------------------------------- backup
RequiredBackupGB(s) == IF s = "nginx" THEN NginxBackupGB ELSE MailcowBackupGB

\* Config.get_secret (config.py 249-305): the environment variable when it
\* is non-empty, else the value of the first secret file that has the key
\* (which may be the empty string), else None.
get_secret(env, file) ==
    IF env = "set" THEN "pw"
    ELSE IF file = "set" THEN "pw"
    ELSE IF file = "empty" THEN "" ELSE "None"

\* BackupManager.__init__ (backup.py 39-45): borg_env is a copy of the
\* process environment, with BORG_PASSPHRASE stored when get_secret returned
\* a non-empty value.  key: 'BORG_PASSPHRASE' in borg_env.
BorgEnv(env, file) ==
    LET passphrase == get_secret(env, file) IN
    [key |-> (env # "unset") \/ (passphrase \notin {"None", ""}),
     secret |-> passphrase \notin {"None", ""}]

Check(name, ok) == [name |-> name, ok |-> ok]

\* pre_backup_checks without the `return False` of backup.py 92.
pre_backup_checks_NoSshReturn(diskOk, sshOk, hasKey) ==
    IF ~diskOk
    THEN [ok |-> FALSE, ran |-> <<Check("disk", FALSE)>>]
    ELSE [ok |-> hasKey,
          ran |-> <<Check("disk", TRUE), Check("ssh", sshOk),
                    Check("passphrase", hasKey)>>]

\* pre_backup_checks collecting every check before it returns.
pre_backup_checks_CollectAll(diskOk, sshOk, hasKey) ==
    [ok |-> diskOk /\ sshOk /\ hasKey,
     ran |-> <<Check("disk", diskOk), Check("ssh", sshOk),
               Check("passphrase", hasKey)>>]

\* _pre_backup_checks (backup.py 67-100): the checks in source order, each
\* returning False at once when it fails.  ran: the checks evaluated.
pre_backup_checks(diskOk, sshOk, hasKey) ==
    IF ~diskOk
    THEN [ok |-> FALSE, ran |-> <<Check("disk", FALSE)>>]
    ELSE IF ~sshOk
    THEN [ok |-> FALSE, ran |-> <<Check("disk", TRUE), Check("ssh", FALSE)>>]
    ELSE [ok |-> hasKey,
          ran |-> <<Check("disk", TRUE), Check("ssh", TRUE),
                    Check("passphrase", hasKey)>>]

\* A new invocation of backup_<svc>(verify) on a BackupManager constructed
\* in a process whose environment and secret files are env and file.
StartBackup ==
    /\ pc = "idle"
    /\ runs < MaxRuns
    /\ verify' \in BOOLEAN
    /\ \E env \in {"unset", "empty", "set"}, file \in {"unset", "empty", "set"} :
        borg_env' = BorgEnv(env, file)
    /\ runs' = runs + 1
    /\ now' = now + 1
    /\ pc' = "b_pre"
    /\ op' = "backup"
    /\ listing' = <<>>
    /\ selected' = <<>>
    /\ backup_path' = <<>>
    /\ temp' = "absent"
    /\ result' = "none"
    /\ trace' = <<>>
    /\ checks' = <<>>
    /\ pre' = [install |-> install, running |-> running, snapshots |-> snapshots]
    /\ UNCHANGED <<svc, repo, install, running, snapshots, backup_name,
                   schedvars, cronvars, maintvars>>

BFixed == <<svc, install, running, snapshots, now, runs, op, backup_name,
            verify, borg_env, listing, selected, backup_path, temp, pre,
            schedvars, cronvars, maintvars>>

\* backup.py 320-322 / 375-377: the preflight; a failure returns False.
B_Preflight ==
    /\ pc = "b_pre"
    /\ \E free \in FreeGB, sshOk \in BOOLEAN :
        LET r == pre_backup_checks(check_disk_space(free, RequiredBackupGB(svc)),
                                   sshOk, borg_env.key) IN
        /\ checks' = r.ran
        /\ IF r.ok
           THEN /\ pc' = "b_path"
                /\ UNCHANGED result
           ELSE /\ result' = "False"
                /\ pc' = "done"
    /\ UNCHANGED <<BFixed, repo, trace>>

\* backup.py 324-327 / 379-389: the install directory (and, for Mailcow, its
\* backup script) must exist.
B_Path ==
    /\ pc = "b_path"
    /\ IF (svc = "nginx" /\ install.exists) \/ (svc = "mailcow" /\ HasCompose(install))
       THEN /\ pc' = IF svc = "nginx" THEN "b_create" ELSE "b_script"
            /\ UNCHANGED result
       ELSE /\ result' = "False"
            /\ pc' = "done"
    /\ UNCHANGED <<BFixed, repo, trace, checks>>

\* backup.py 395-420 (backup_mailcow): Mailcow's backup script, then the
\* newest "mailcow-*" directory it left; CalledProcessError and
\* TimeoutExpired are caught at 442-447.
B_Script ==
    /\ pc = "b_script"
    /\ \E out \in Outcomes, dirs \in BOOLEAN :
        /\ trace' = Append(trace, Event("script", out))
        /\ IF out = "ok" /\ dirs
           THEN /\ pc' = "b_create"
                /\ UNCHANGED result
           ELSE /\ result' = "False"
                /\ pc' = "done"
    /\ UNCHANGED <<BFixed, repo, checks>>

\* _create_borg_backup without the `except TimeoutExpired` of backup.py 161-163
\* turned into a failure: a timeout counts as created.
create_borg_backup_TimeoutOk(out) == out # "nonzero"

\* _create_borg_backup (backup.py 102-163): True on exit 0, False on a
\* non-zero exit and on a timeout.
create_borg_backup(out) == out = "ok"

\* B_Create running `borg create` a second time after a first failure.
B_Create_Retry ==
    /\ pc = "b_create"
    /\ \E out \in Outcomes :
        /\ trace' = Append(trace, Event("create", out))
        /\ IF create_borg_backup(out)
           THEN /\ repo' = repo \cup {[t |-> now, c |-> install.c]}
                /\ pc' = IF verify THEN "b_verify" ELSE "b_prune"
                /\ UNCHANGED result
           ELSE /\ IF "create" \in Ops(trace)
                   THEN result' = "False" /\ pc' = "done"
                   ELSE UNCHANGED result /\ pc' = "b_create"
                /\ UNCHANGED repo
    /\ UNCHANGED <<BFixed, checks>>

\* B_Create taking the service down while the archive is written.
B_Create_Stopped ==
    /\ pc = "b_create"
    /\ \E out \in Outcomes :
        /\ trace' = Append(trace, Event("create", out))
        /\ IF create_borg_backup(out)
           THEN /\ repo' = repo \cup {[t |-> now, c |-> install.c]}
                /\ pc' = IF verify THEN "b_verify" ELSE "b_prune"
                /\ UNCHANGED result
           ELSE /\ result' = "False"
                /\ pc' = "done"
                /\ UNCHANGED repo
    /\ running' = FALSE
    /\ UNCHANGED <<svc, install, snapshots, now, runs, op, backup_name,
                   verify, borg_env, listing, selected, backup_path, temp, pre,
                   schedvars, cronvars, maintvars, checks>>

\* backup.py 341-343 / 427-428: create the archive "<host>-<svc>-<now>".
B_Create ==
    /\ pc = "b_create"
    /\ \E out \in Outcomes :
        /\ trace' = Append(trace, Event("create", out))
        /\ IF create_borg_backup(out)
           THEN /\ repo' = repo \cup {[t |-> now, c |-> install.c]}
                /\ pc' = IF verify THEN "b_verify" ELSE "b_prune"
                /\ UNCHANGED result
           ELSE /\ result' = "False"
                /\ pc' = "done"
                /\ UNCHANGED repo
    /\ UNCHANGED <<BFixed, checks>>

\* verify_backup taking a non-zero exit of the listing for a success.
verify_backup_NonzeroOk(out) == IF out = "timeout" THEN "raised" ELSE "True"

\* verify_backup (backup.py 165-194): True on exit 0, False on a non-zero
\* exit; a timeout is not caught.
verify_backup(out) ==
    IF out = "ok" THEN "True" ELSE IF out = "nonzero" THEN "False" ELSE "raised"

\* What an exception escaping a stage does to the run: backup_nginx has no
\* try (it escapes), backup_mailcow catches it at 442-447 (returns False).
Escaped(s) == IF s = "nginx" THEN "raised" ELSE "False"

\* B_Verify deleting the archive it could not verify.
B_Verify_Rollback ==
    /\ pc = "b_verify"
    /\ \E out \in Outcomes :
        LET v == verify_backup(out) IN
        /\ trace' = Append(trace, Event("verify", out))
        /\ IF v = "True"
           THEN /\ pc' = "b_prune"
                /\ UNCHANGED <<result, repo>>
           ELSE /\ result' = IF v = "False" THEN "False" ELSE Escaped(svc)
                /\ repo' = {a \in repo : a.t # now}
                /\ pc' = "done"
    /\ UNCHANGED <<BFixed, checks>>

\* B_Verify going on to the prune after a failed verification.
B_Verify_ThenPrune ==
    /\ pc = "b_verify"
    /\ \E out \in Outcomes :
        /\ trace' = Append(trace, Event("verify", out))
        /\ pc' = "b_prune"
    /\ UNCHANGED <<BFixed, repo, checks, result>>

\* backup.py 345-349 / 430-434: verify the archive just created.
B_Verify ==
    /\ pc = "b_verify"
    /\ \E out \in Outcomes :
        LET v == verify_backup(out) IN
        /\ trace' = Append(trace, Event("verify", out))
        /\ IF v = "True"
           THEN /\ pc' = "b_prune"
                /\ UNCHANGED result
           ELSE /\ result' = IF v = "False" THEN "False" ELSE Escaped(svc)
                /\ pc' = "done"
    /\ UNCHANGED <<BFixed, repo, checks>>

\* prune_old_backups (backup.py 196-235): True on exit 0, False on a
\* non-zero exit; a timeout is not caught.
prune_old_backups(out) ==
    IF out = "ok" THEN "True" ELSE IF out = "nonzero" THEN "False" ELSE "raised"

\* `borg prune --keep-daily --keep-weekly --keep-monthly` with counts >= 1
\* keeps at least the newest archive.
PruneResults(archives) ==
    {kept \in SUBSET archives :
        archives # {} => (CHOOSE a \in archives : a.t = MaxOf(Names(archives))) \in kept}

\* B_Prune followed by a verification when none has run yet.
B_Prune_Reverify ==
    /\ pc = "b_prune"
    /\ \E out \in Outcomes :
        LET p == prune_old_backups(out) IN
        /\ trace' = Append(trace, Event("prune", out))
        /\ repo' \in IF out = "ok" THEN PruneResults(repo) ELSE {repo}
        /\ result' = IF p = "raised" THEN Escaped(svc) ELSE "True"
    /\ pc' = IF "verify" \in Ops(trace) THEN "done" ELSE "b_verify"
    /\ UNCHANGED <<BFixed, checks>>

\* backup.py 351-355 / 436-440: prune, its return value unused, then True.
B_Prune ==
    /\ pc = "b_prune"
    /\ \E out \in Outcomes :
        LET p == prune_old_backups(out) IN
        /\ trace' = Append(trace, Event("prune", out))
        /\ repo' \in IF out = "ok" THEN PruneResults(repo) ELSE {repo}
        /\ result' = IF p = "raised" THEN Escaped(svc) ELSE "True"
    /\ pc' = "done"
    /\ UNCHANGED <<BFixed, checks>>

\* The run has returned to its caller (handlers/restore_handlers.py 80,
\* handlers/backup_handlers.py 45): its locals are gone.
Return ==
    /\ pc = "done"
    /\ pc' = "idle"
    /\ op' = "none"
    /\ backup_name' = Latest
    /\ verify' = TRUE
    /\ borg_env' = [key |-> FALSE, secret |-> FALSE]
    /\ listing' = <<>>
    /\ selected' = <<>>
    /\ backup_path' = <<>>
    /\ result' = "none"
    /\ trace' = <<>>
    /\ checks' = <<>>
    /\ pre' = [install |-> install, running |-> running, snapshots |-> snapshots]
    /\ UNCHANGED <<envvars, temp, schedvars, cronvars, maintvars>>

BackupNext ==
    \/ StartBackup
    \/ B_Preflight
    \/ B_Path
    \/ B_Script
    \/ B_Create
    \/ B_Verify
    \/ B_Prune

Next == RestoreNext \/ BackupNext \/ Return

Spec == Init /\ [][Next]_vars

\* ------------------------------------------------------------------- text
\* A text is a sequence of one-character strings.
DigitSeq == <<"0", "1", "2", "3", "4", "5", "6", "7", "8", "9">>
\* The character class [lo-hi] of a regular expression.
Cls(lo, hi) == {DigitSeq[i + 1] : i \in lo..hi}
Whitespace == {" ", "\t"}

\* str.split(): the maximal runs of non-whitespace characters.
RECURSIVE SplitFrom(_, _, _)
SplitFrom(s, cur, acc) ==
    IF s = <<>>
    THEN IF cur = <<>> THEN acc ELSE Append(acc, cur)
    ELSE IF Head(s) \in Whitespace
    THEN SplitFrom(Tail(s), <<>>, IF cur = <<>> THEN acc ELSE Append(acc, cur))
    ELSE SplitFrom(Tail(s), Append(cur, Head(s)), acc)
split(s) == SplitFrom(s, <<>>, <<>>)

\* The pieces of s between the occurrences of the character ch (empty pieces
\* included).
RECURSIVE PiecesFrom(_, _, _, _)
PiecesFrom(s, ch, cur, acc) ==
    IF s = <<>> THEN Append(acc, cur)
    ELSE IF Head(s) = ch
    THEN PiecesFrom(Tail(s), ch, <<>>, Append(acc, cur))
    ELSE PiecesFrom(Tail(s), ch, Append(cur, Head(s)), acc)
Pieces(s, ch) == PiecesFrom(s, ch, <<>>, <<>>)

\* ------------------------------------------------- _validate_cron_schedule
\* The number sub-patterns of scheduling.py 201-205, by position:
\*   minute  [0-5]?[0-9]            hour   [01]?[0-9]|2[0-3]
\*   day     [1-9]|[12][0-9]|3[01]  month  [1-9]|1[0-2]     weekday [0-6]
NumberPattern(s, pos) ==
    LET one(a, b) == Len(s) = 1 /\ s[1] \in Cls(a, b)
        two(a, b, c, d) == Len(s) = 2 /\ s[1] \in Cls(a, b) /\ s[2] \in Cls(c, d)
    IN  IF pos = 1 THEN one(0, 9) \/ two(0, 5, 0, 9)
        ELSE IF pos = 2 THEN one(0, 9) \/ two(0, 1, 0, 9) \/ two(2, 2, 0, 3)
        ELSE IF pos = 3 THEN one(1, 9) \/ two(1, 2, 0, 9) \/ two(3, 3, 0, 1)
        ELSE IF pos = 4 THEN one(1, 9) \/ two(1, 1, 0, 2)
        ELSE one(0, 6)

\* re.match(patterns[pos], part) with the patterns of scheduling.py 200-206,
\* all of the shape ^(\*|N(,N)*(\/N)?)$ : a lone "*", or a comma-separated
\* list of numbers optionally followed by "/" and one number.
PatternMatches(part, pos) ==
    \/ part = <<"*">>
    \/ LET bySlash == Pieces(part, "/") IN
       /\ Len(bySlash) \in {1, 2}
       /\ Len(bySlash) = 2 => NumberPattern(bySlash[2], pos)
       /\ LET items == Pieces(bySlash[1], ",") IN
          \A i \in 1..Len(items) : NumberPattern(items[i], pos)

\* _validate_cron_schedule accepting any string of five parts.
validate_cron_schedule_CountOnly(schedule) == Len(split(schedule)) = 5

\* _validate_cron_schedule (scheduling.py 185-212).
validate_cron_schedule(schedule) ==
    LET parts == split(schedule) IN
    /\ Len(parts) = 5
    /\ \A pos \in 1..5 : PatternMatches(parts[pos], pos)

\* ---- the inputs the validator is applied to
Numeral(n) ==
    IF n < 10 THEN <<DigitSeq[n + 1]>>
    ELSE <<DigitSeq[(n \div 10) + 1], DigitSeq[(n % 10) + 1]>>
\* The boundary values of the five positions and their neighbours.
ProbeNumbers == {0, 1, 6, 7, 12, 13, 23, 24, 31, 32, 59, 60}
ProbeFields ==
    {Numeral(n) : n \in ProbeNumbers}
    \cup {<<"*">>, <<"*", "/", "6">>, <<"*", "/", "2">>, <<"1", "-", "5">>,
          <<"1", "-", "5", "/", "2">>, <<"1", ",", "2">>, <<"1", "/", "2">>,
          <<"0", "5">>, <<"1", ",">>, <<"/", "2">>, <<"*", "*">>, <<"a">>,
          <<"5", "-", "1">>, <<"-", "1">>}
RECURSIVE Join(_, _)
Join(fields, sep) ==
    IF fields = <<>> THEN <<>>
    ELSE IF Len(fields) = 1 THEN fields[1]
    ELSE fields[1] \o sep \o Join(Tail(fields), sep)
\* "* * * * *" with the field at position pos replaced by f.
Probe(pos, f) == [i \in 1..5 |-> IF i = pos THEN f ELSE <<"*">>]
CronInputs ==
    {Join(Probe(pos, f), <<" ">>) : pos \in 1..5, f \in ProbeFields}
    \cup {Join(Probe(pos, f), <<" ", "\t">>) \o <<" ">> : pos \in {2}, f \in ProbeFields}
    \cup {Join(SubSeq(Probe(pos, f), 1, 4), <<" ">>) : pos \in 1..4, f \in ProbeFields}
    \cup {Join(Probe(pos, f) \o <<f>>, <<" ">>) : pos \in 1..5, f \in ProbeFields}
    \cup {<<>>}

\* get_schedule_presets (scheduling.py 332-349): preset name -> expression.
Expression(minute, hour, day, month, weekday) ==
    Join(<<minute, hour, day, month, weekday>>, <<" ">>)
get_schedule_presets ==
    [daily_2am |-> Expression(<<"0">>, <<"2">>, <<"*">>, <<"*">>, <<"*">>),
     daily_3am |-> Expression(<<"0">>, <<"3">>, <<"*">>, <<"*">>, <<"*">>),
     daily_4am |-> Expression(<<"0">>, <<"4">>, <<"*">>, <<"*">>, <<"*">>),
     daily_midnight |-> Expression(<<"0">>, <<"0">>, <<"*">>, <<"*">>, <<"*">>),
     weekly_sunday_2am |-> Expression(<<"0">>, <<"2">>, <<"*">>, <<"*">>, <<"0">>),
     weekly_monday_2am |-> Expression(<<"0">>, <<"2">>, <<"*">>, <<"*">>, <<"1">>),
     hourly |-> Expression(<<"0">>, <<"*">>, <<"*">>, <<"*">>, <<"*">>),
     every_6_hours |-> Expression(<<"0">>, <<"*", "/", "6">>, <<"*">>, <<"*">>, <<"*">>),
     every_12_hours |-> Expression(<<"0">>, <<"*", "/", "1", "2">>, <<"*">>, <<"*">>, <<"*">>)]
PresetExpressions == {get_schedule_presets[k] : k \in DOMAIN get_schedule_presets}

\* The host at rest: what the orchestrators act on plays no part in the
\* scheduler.
HostAtRest ==
    /\ svc = "nginx"
    /\ repo = {}
    /\ install = AbsentDir
    /\ running = FALSE
    /\ snapshots = {}
    /\ now = MaxInitArchives
    /\ runs = 0
    /\ NoRun

CronInit ==
    /\ HostAtRest
    /\ NoMaintenance
    /\ NoSchedule
    /\ cron_in \in CronInputs \cup PresetExpressions
    /\ cron_out = "none"

\* A call _validate_cron_schedule(cron_in).
Validate ==
    /\ cron_out = "none"
    /\ cron_out' = IF validate_cron_schedule(cron_in) THEN "True" ELSE "False"
    /\ UNCHANGED <<envvars, runvars, schedvars, cron_in, maintvars>>

CronNext == Validate

CronSpec == CronInit /\ [][CronNext]_vars

\* ------------------------------------------------------------ the job table
\* A line of the table is [sep, parts]: its whitespace-separated parts as
\* line.strip().split(None, 5) cuts them (at most six, the sixth being the
\* rest of the line) and the whitespace that separated them.  A part is a
\* text cut into tokens so that every occurrence in it of a word
\* _identify_job_type searches for is a run of whole tokens.
Line(sep, parts) == [sep |-> sep, parts |-> parts]
Blank == Line(" ", <<>>)
Comment(words) == Line(" ", <<<<"#">>>> \o words)

\* `needle in text`
Contains(text, needle) ==
    \E i \in 0..(Len(text) - Len(needle)) :
        SubSeq(text, i + 1, i + Len(needle)) = needle

\* The services the scheduling menu offers (handlers/scheduling_handlers.py
\* 84-89).
MenuServices ==
    {<<"nginx">>, <<"mailcow">>, <<"mailcow", "-", "directory">>, <<"application">>}
\* f'backup_{service}'
BackupType(service) == <<"backup", "_">> \o service
CleanupType == <<"cleanup">>
UnknownType == <<"unknown">>

\* _identify_job_type (scheduling.py 105-128)
identify_job_type(command) ==
    LET has(a, b, c) == Contains(command, <<a, b, c>>) IN
    IF has("backup", "-", "nginx") \/ has("backup", "_", "nginx")
    THEN <<"backup", "_", "nginx">>
    ELSE IF has("backup", "-", "mailcow") \/ has("backup", "_", "mailcow")
    THEN <<"backup", "_", "mailcow">>
    ELSE IF has("backup", "-", "application") \/ has("backup", "_", "application")
    THEN <<"backup", "_", "application">>
    ELSE IF Contains(command, <<"cleanup">>) THEN CleanupType
    ELSE IF Contains(command, <<"update">>) THEN <<"update">>
    ELSE IF has("health", "-", "check") THEN <<"health", "_", "check">>
    ELSE UnknownType

\* _parse_crontab (scheduling.py 63-103): empty lines and comment lines are
\* skipped, a line of six parts is a job, any other line is skipped.
RECURSIVE parse_crontab(_)
parse_crontab(lines) ==
    IF lines = <<>> THEN <<>>
    ELSE LET parts == Head(lines).parts
             rest == parse_crontab(Tail(lines))
         IN  IF parts = <<>> THEN rest
             ELSE IF parts[1][1] = "#" THEN rest
             ELSE IF Len(parts) >= 6
             THEN <<[minute |-> parts[1], hour |-> parts[2], day |-> parts[3],
                     month |-> parts[4], weekday |-> parts[5],
                     command |-> parts[6],
                     schedule |-> Join(SubSeq(parts, 1, 5), <<" ">>),
                     type |-> identify_job_type(parts[6])]>> \o rest
             ELSE rest

\* `crontab -l` as get_current_schedule runs it (scheduling.py 35-39): the
\* table when the command exits zero; a non-zero exit when the user has no
\* crontab, and whenever else the command fails (the spool cannot be read,
\* the process cannot be started): listOk tells which.
crontab_l(tab, listOk) ==
    IF tab.exists /\ listOk THEN tab ELSE [exists |-> FALSE, lines |-> <<>>]
\* The exits `crontab -l` can have on a table.
ListExits(tab) == IF tab.exists THEN BOOLEAN ELSE {FALSE}

\* get_current_schedule (scheduling.py 28-61): `crontab -l` exits non-zero
\* when the user has no crontab.
get_current_schedule(tab) ==
    IF ~tab.exists THEN [exists |-> FALSE, jobs |-> <<>>]
    ELSE [exists |-> TRUE, jobs |-> parse_crontab(tab.lines)]

\* _build_backup_command (scheduling.py 214-239), with the options the
\* handler passes (verify and remote, scheduling_handlers.py 168-172).
build_backup_command(service) ==
    <<"/opt/server-manager/scripts/automated-backup.sh", " ">> \o service
    \o <<" --verify", " --remote", " >> ", "/opt/server-manager/logs/", "backup", "-">>
    \o service \o <<"-cron.log 2>&1">>

\* scheduling.py 389: the cleanup command (retention_days = 30).
CleanupCommand ==
    <<"/opt/server-manager/scripts/", "cleanup", "-backups.sh", " ", "30", " >> ",
      "/opt/server-manager/logs/", "cleanup", "-cron.log 2>&1">>

\* The lines _write_crontab puts before the jobs (scheduling.py 253-263; the
\* time of the "Last updated" line is left out).
HeaderLines ==
    <<Comment(<<<<"server-manager automated schedules">>>>),
      Comment(<<<<"Generated by SchedulingManager">>>>),
      Comment(<<<<"Last updated:">>>>),
      Blank,
      Comment(<<<<"Environment">>>>),
      Line(" ", <<<<"SHELL=/bin/bash">>>>),
      Line(" ", <<<<"PATH=/usr/local/sbin:/usr/local/bin:/sbin:/bin:/usr/sbin:/usr/bin">>>>),
      Line(" ", <<<<"MAILTO=root">>>>),
      Blank>>

\* scheduling.py 265-272: the marker comment, the cron line and an empty
\* line, per job.
RECURSIVE JobLines(_)
JobLines(jobs) ==
    IF jobs = <<>> THEN <<>>
    ELSE LET job == Head(jobs) IN
         <<Comment(<<<<"server-manager:">>, job.type>>),
           Line(" ", <<job.minute, job.hour, job.day, job.month, job.weekday,
                       job.command>>),
           Blank>> \o JobLines(Tail(jobs))

\* The text _write_crontab (scheduling.py 241-297) writes for the jobs.
crontab_text(jobs) == HeaderLines \o JobLines(jobs)

Without(jobs, type) == SelectSeq(jobs, LAMBDA j : j.type # type)


\* What a call leaves: its return value, the job table, the temporary file
\* and whether it ran `crontab <file>`.
Outcome(ret, tab, file, wrote) ==
    [ret |-> ret, crontab |-> tab, temp_file |-> file, wrote |-> wrote]

\* _write_crontab (scheduling.py 274-293): the text goes to crontab.tmp and
\* `crontab crontab.tmp` installs it; on a non-zero exit an exception is
\* raised (the caller returns False) and the temporary file stays.
write_crontab(tab, jobs, installOk) ==
    IF installOk
    THEN Outcome("True", [exists |-> TRUE, lines |-> crontab_text(jobs)], <<>>, TRUE)
    ELSE Outcome("False", tab, <<crontab_text(jobs)>>, TRUE)

NewJob(type, cmd, parts) ==
    [minute |-> parts[1], hour |-> parts[2], day |-> parts[3], month |-> parts[4],
     weekday |-> parts[5], command |-> cmd,
     schedule |-> Join(parts, <<" ">>), type |-> type]

\* schedule_job validating the schedule only after it has written the table.
schedule_job_ValidateLate(tab, file, type, cmd, schedule, listOk, installOk) ==
    LET parts == split(schedule)
        current == get_current_schedule(crontab_l(tab, listOk))
        jobs == Without(current.jobs, type)
    IN  IF Len(parts) < 5 THEN Outcome("False", tab, file, FALSE)
        ELSE LET w == write_crontab(tab, Append(jobs, NewJob(type, cmd, parts)), installOk)
             IN  IF validate_cron_schedule(schedule) THEN w
                 ELSE Outcome("False", w.crontab, w.temp_file, TRUE)

\* The body schedule_backup (scheduling.py 145-183) and schedule_cleanup
\* (scheduling.py 386-413) share: validate, read the table, drop the jobs of
\* the type, append the new job, write the table.  Any exception gives False.
schedule_job(tab, file, type, cmd, schedule, listOk, installOk) ==
    IF ~validate_cron_schedule(schedule) THEN Outcome("False", tab, file, FALSE)
    ELSE LET parts == split(schedule)
             current == get_current_schedule(crontab_l(tab, listOk))
             jobs == Without(current.jobs, type)
         IN  write_crontab(tab, Append(jobs, NewJob(type, cmd, parts)), installOk)

\* remove_schedule (scheduling.py 299-330)
remove_job(tab, file, job_type, listOk, installOk) ==
    LET current == get_current_schedule(crontab_l(tab, listOk))
        jobs == Without(current.jobs, job_type)
    IN  IF ~current.exists THEN Outcome("True", tab, file, FALSE)
        ELSE IF Len(jobs) = Len(current.jobs) THEN Outcome("False", tab, file, FALSE)
        ELSE write_crontab(tab, jobs, installOk)

\* ---- the calls made one after the other
MaxCalls == 3

\* Schedules the operator picks or types: two presets, the every-6-hours
\* preset, and an hour out of range.
Daily2am == <<"0", " ", "2", " ", "*", " ", "*", " ", "*">>
Daily3am == <<"0", " ", "3", " ", "*", " ", "*", " ", "*">>
Every6Hours == <<"0", " ", "*", "/", "6", " ", "*", " ", "*", " ", "*">>
Hour24 == <<"0", " ", "2", "4", " ", "*", " ", "*", " ", "*">>
Schedules == {Daily2am, Daily3am, Every6Hours, Hour24}

\* Lines of a crontab that root wrote by hand.
ForeignComment == Comment(<<<<"nightly report">>>>)
ForeignEnv == Line(" ", <<<<"MAILTO=admin@example.org">>>>)
ForeignJob ==
    Line("\t", <<<<"3", "0">>, <<"4">>, <<"*">>, <<"*">>, <<"*">>,
                 <<"/usr/local/bin/", "report">>>>)
ForeignLines == <<ForeignComment, ForeignEnv, ForeignJob>>
NoTable == [exists |-> FALSE, lines |-> <<>>]
InitTables ==
    {NoTable} \cup
    {[exists |-> TRUE,
      lines |-> SelectSeq(ForeignLines, LAMBDA l : l \in keep)] :
        keep \in SUBSET Range(ForeignLines)}

SchedInit ==
    /\ HostAtRest
    /\ NoMaintenance
    /\ NoValidation
    /\ crontab \in InitTables
    /\ temp_file = <<>>
    /\ calls = 0
    /\ call = [fn |-> "none"]
    /\ before = crontab
    /\ proc = <<>>
    /\ log = <<>>

\* The effect of a call with outcome r.
Called(fn, arg, schedule, listOk, r) ==
    /\ calls' = calls + 1
    /\ call' = [fn |-> fn, arg |-> arg, schedule |-> schedule, listOk |-> listOk,
                ret |-> r.ret, wrote |-> r.wrote]
    /\ before' = crontab
    /\ crontab' = r.crontab
    /\ temp_file' = r.temp_file
    /\ UNCHANGED <<envvars, runvars, proc, log, cronvars, maintvars>>

\* The exits of a command a schedule call runs after the validation: none
\* to choose from (FALSE stands for "not run") when the schedule is
\* rejected, as the call returns before the command.
ExitsAfterValidation(schedule, exits) ==
    IF validate_cron_schedule(schedule) THEN exits ELSE {FALSE}

\* schedule_backup(service, schedule, {verify, remote}) (scheduling.py 130-183)
schedule_backup ==
    /\ calls < MaxCalls
    /\ \E service \in MenuServices, schedule \in Schedules :
       \E listOk \in ExitsAfterValidation(schedule, ListExits(crontab)),
          installOk \in ExitsAfterValidation(schedule, BOOLEAN) :
        Called("schedule_backup", service, schedule, listOk,
               schedule_job(crontab, temp_file, BackupType(service),
                            build_backup_command(service), schedule, listOk, installOk))

\* schedule_cleanup(schedule) (scheduling.py 375-413)
schedule_cleanup ==
    /\ calls < MaxCalls
    /\ \E schedule \in Schedules :
       \E listOk \in ExitsAfterValidation(schedule, ListExits(crontab)),
          installOk \in ExitsAfterValidation(schedule, BOOLEAN) :
        Called("schedule_cleanup", CleanupType, schedule, listOk,
               schedule_job(crontab, temp_file, CleanupType, CleanupCommand,
                            schedule, listOk, installOk))

\* remove_schedule(job_type) (scheduling.py 299-330)
remove_schedule ==
    /\ calls < MaxCalls
    /\ \E job_type \in {BackupType(s) : s \in MenuServices} \cup {CleanupType, UnknownType},
          listOk \in ListExits(crontab), installOk \in BOOLEAN :
        Called("remove_schedule", job_type, <<>>, listOk,
               remove_job(crontab, temp_file, job_type, listOk, installOk))

\* disable_all_schedules (scheduling.py 468-489): `crontab -r`.
disable_all_schedules ==
    /\ calls < MaxCalls
    /\ Called("disable_all_schedules", <<>>, <<>>, FALSE,
              Outcome("True", NoTable, temp_file, TRUE))

SchedNext ==
    \/ schedule_backup
    \/ schedule_cleanup
    \/ remove_schedule
    \/ disable_all_schedules

SchedSpec == SchedInit /\ [][SchedNext]_vars


\* ---- two schedule calls at the same time
\* Two server-manager processes: process 1 calls schedule_backup, process 2
\* calls schedule_cleanup.  A call is cut at its external operations: its
\* `crontab -l`, its write of crontab.tmp, its `crontab crontab.tmp`, its
\* unlink of crontab.tmp.  No step takes or tests a lock: the code has none.
Procs == {1, 2}
RaceSchedules == {Daily2am, Daily3am}
Local(type, cmd, schedule) ==
    [pc |-> "validate", type |-> type, cmd |-> cmd, schedule |-> schedule,
     jobs |-> <<>>, ret |-> "none"]

RaceInit ==
    /\ HostAtRest
    /\ NoMaintenance
    /\ NoValidation
    /\ crontab \in InitTables
    /\ temp_file = <<>>
    /\ calls = 0
    /\ call = [fn |-> "none"]
    /\ before = crontab
    /\ \E service \in MenuServices, s1 \in RaceSchedules, s2 \in RaceSchedules :
        proc = <<Local(BackupType(service), build_backup_command(service), s1),
                 Local(CleanupType, CleanupCommand, s2)>>
    /\ log = <<>>

\* Process p moves to pc with its return value ret.
Step(p, name, to, jobs, ret) ==
    /\ proc' = [proc EXCEPT ![p].pc = to, ![p].jobs = jobs, ![p].ret = ret]
    /\ log' = Append(log, <<p, name>>)
    /\ UNCHANGED <<envvars, runvars, calls, call, before, cronvars, maintvars>>

\* scheduling.py 150-154 / 387-389: validate the schedule, build the command.
S_Validate(p) ==
    /\ proc[p].pc = "validate"
    /\ IF validate_cron_schedule(proc[p].schedule)
       THEN Step(p, "validate", "read", <<>>, "none")
       ELSE Step(p, "validate", "done", <<>>, "False")
    /\ UNCHANGED <<crontab, temp_file>>

\* scheduling.py 157-172 / 391-403: read the table, drop the jobs of the
\* type, append the new job: the process now holds its own copy of the table.
S_Read(p) ==
    /\ proc[p].pc = "read"
    /\ LET current == get_current_schedule(crontab)
           new == NewJob(proc[p].type, proc[p].cmd, split(proc[p].schedule))
       IN  Step(p, "read", "file", Append(Without(current.jobs, proc[p].type), new), "none")
    /\ UNCHANGED <<crontab, temp_file>>

\* S_File reading the table again and writing it with its own job added.
S_File_Merging(p) ==
    /\ proc[p].pc = "file"
    /\ LET current == get_current_schedule(crontab)
           new == NewJob(proc[p].type, proc[p].cmd, split(proc[p].schedule))
       IN  temp_file' = <<crontab_text(Append(Without(current.jobs, proc[p].type), new))>>
    /\ Step(p, "file", "install", proc[p].jobs, "none")
    /\ UNCHANGED crontab

\* scheduling.py 274-277: the text of the copy goes to crontab.tmp, the one
\* path every process uses.
S_File(p) ==
    /\ proc[p].pc = "file"
    /\ temp_file' = <<crontab_text(proc[p].jobs)>>
    /\ Step(p, "file", "install", proc[p].jobs, "none")
    /\ UNCHANGED crontab

\* scheduling.py 279-287: `crontab crontab.tmp` replaces the whole table by
\* what the file holds now; a non-zero exit (the file is gone, or crontab
\* fails) raises and the call returns False.
S_Install(p) ==
    /\ proc[p].pc = "install"
    /\ \E installOk \in BOOLEAN :
        IF installOk /\ temp_file # <<>>
        THEN /\ crontab' = [exists |-> TRUE, lines |-> temp_file[1]]
             /\ Step(p, "install", "unlink", proc[p].jobs, "none")
        ELSE /\ Step(p, "install", "done", proc[p].jobs, "False")
             /\ UNCHANGED crontab
    /\ UNCHANGED temp_file

\* scheduling.py 289-293: temp_file.unlink() raises when the file is gone
\* (the call returns False), else the call returns True.
S_Unlink(p) ==
    /\ proc[p].pc = "unlink"
    /\ IF temp_file = <<>>
       THEN /\ Step(p, "unlink", "done", proc[p].jobs, "False")
            /\ UNCHANGED temp_file
       ELSE /\ temp_file' = <<>>
            /\ Step(p, "unlink", "done", proc[p].jobs, "True")
    /\ UNCHANGED crontab

RaceNext ==
    \E p \in Procs :
        \/ S_Validate(p)
        \/ S_Read(p)
        \/ S_File(p)
        \/ S_Install(p)
        \/ S_Unlink(p)

RaceSpec == RaceInit /\ [][RaceNext]_vars

\* ---------------------------------------------------- the retention policy
\* The number of _set_retention calls explored.
MaxEdits == 2

\* str.strip(): the text without its leading and trailing whitespace.
RECURSIVE lstrip(_)
lstrip(s) == IF s # <<>> /\ Head(s) \in Whitespace THEN lstrip(Tail(s)) ELSE s
RECURSIVE rstrip(_)
rstrip(s) ==
    IF s # <<>> /\ s[Len(s)] \in Whitespace
    THEN rstrip(SubSeq(s, 1, Len(s) - 1)) ELSE s
strip(s) == rstrip(lstrip(s))

\* The digits of an int() literal: decimal digits, any two of which may be
\* separated by one underscore.
IsDigits(s) ==
    /\ s # <<>>
    /\ \A i \in 1..Len(s) : s[i] \in Cls(0, 9) \cup {"_"}
    /\ s[1] # "_" /\ s[Len(s)] # "_"
    /\ \A i \in 1..(Len(s) - 1) : ~(s[i] = "_" /\ s[i + 1] = "_")
RECURSIVE DigitsValue(_, _)
DigitsValue(s, acc) ==
    IF s = <<>> THEN acc
    ELSE IF Head(s) = "_" THEN DigitsValue(Tail(s), acc)
    ELSE DigitsValue(Tail(s),
                     10 * acc + (CHOOSE v \in 0..9 : DigitSeq[v + 1] = Head(s)))

\* The two outcomes of a conversion: a ValueError, or the integer n.
ValueError == [error |-> TRUE, n |-> 0]
Number(n) == [error |-> FALSE, n |-> n]

\* int(text): the integer the text denotes, or a ValueError.
int(text) ==
    LET t == strip(text)
        signed == t # <<>> /\ Head(t) \in {"+", "-"}
        digits == IF signed THEN Tail(t) ELSE t
    IN  IF ~IsDigits(digits) THEN ValueError
        ELSE IF signed /\ Head(t) = "-" THEN Number(0 - DigitsValue(digits, 0))
        ELSE Number(DigitsValue(digits, 0))

\* One count of _set_retention: a ValueError unless the text is an integer of
\* at least 1.
Count(text) ==
    LET v == int(text) IN
    IF v.error THEN ValueError
    ELSE IF v.n < 1 THEN ValueError ELSE v

\* What one _set_retention call leaves: the counts in the configuration, the
\* counts in settings.yaml and the dialog it ends with.
Edited(ret, file, shown) == [retention |-> ret, settings |-> file, shown |-> shown]

\* A variant that stores each count as soon as it is validated.
set_retention_StoreEarly(current, file, codes, texts, confirmed, saveOk) ==
    LET daily == Count(texts[1])
        weekly == Count(texts[2])
        monthly == Count(texts[3])
    IN  IF codes[1] # "ok" THEN Edited(current, file, "none")
        ELSE IF daily.error THEN Edited(current, file, "error")
        ELSE LET one == [current EXCEPT !.daily = daily.n] IN
        IF codes[2] # "ok" THEN Edited(one, file, "none")
        ELSE IF weekly.error THEN Edited(one, file, "error")
        ELSE LET two == [one EXCEPT !.weekly = weekly.n] IN
        IF codes[3] # "ok" THEN Edited(two, file, "none")
        ELSE IF monthly.error THEN Edited(two, file, "error")
        ELSE LET new == [two EXCEPT !.monthly = monthly.n] IN
        IF ~confirmed THEN Edited(new, file, "none")
        ELSE IF saveOk THEN Edited(new, new, "success")
        ELSE Edited(new, file, "error")

\* _set_retention: three input dialogs in the order daily, weekly, monthly,
\* each of which may be cancelled and each of whose texts is validated at
\* once; then the confirmation; then the three counts are set and the
\* configuration is saved.
set_retention(current, file, codes, texts, confirmed, saveOk) ==
    LET daily == Count(texts[1])
        weekly == Count(texts[2])
        monthly == Count(texts[3])
        new == [daily |-> daily.n, weekly |-> weekly.n, monthly |-> monthly.n]
    IN  IF codes[1] # "ok" THEN Edited(current, file, "none")
        ELSE IF daily.error THEN Edited(current, file, "error")
        ELSE IF codes[2] # "ok" THEN Edited(current, file, "none")
        ELSE IF weekly.error THEN Edited(current, file, "error")
        ELSE IF codes[3] # "ok" THEN Edited(current, file, "none")
        ELSE IF monthly.error THEN Edited(current, file, "error")
        ELSE IF ~confirmed THEN Edited(current, file, "none")
        ELSE IF saveOk THEN Edited(new, new, "success")
        ELSE Edited(new, file, "error")

\* The texts an operator types into an input dialog.
CountTexts ==
    { <<"0">>, <<"1">>, <<"1", "2">>, <<"-", "3">>, <<" ", "4">>, <<"x">> }
\* What happens at the three input dialogs and at the confirmation: a dialog
\* is answered with a text, cancelled, or never shown because the handler
\* has returned before it.
Answered(text) == [code |-> "ok", text |-> text]
Cancelled == [code |-> "cancel", text |-> <<>>]
NotShown == [code |-> "notshown", text |-> <<>>]
Passed(answer) == answer.code = "ok" /\ ~Count(answer.text).error
Dialogs ==
    { d \in [1..3 -> {Answered(t) : t \in CountTexts} \cup {Cancelled, NotShown}] :
        /\ d[1] # NotShown
        /\ \A i \in 2..3 : (d[i] = NotShown) <=> ~Passed(d[i - 1]) }
Sessions ==
    { x \in [dialogs : Dialogs, confirmed : {"yes", "no", "notshown"},
             saved : {"yes", "no", "notattempted"}] :
        /\ (x.confirmed = "notshown") <=> ~Passed(x.dialogs[3])
        /\ (x.saved = "notattempted") <=> x.confirmed # "yes" }

RetentionInit ==
    /\ HostAtRest
    /\ NoSchedule
    /\ NoValidation
    /\ NoMaintenance

\* One use of the menu entry "Set retention policy".
SetRetention ==
    /\ edits < MaxEdits
    /\ \E x \in Sessions :
          LET r == set_retention(retention, settings,
                                 [i \in 1..3 |-> x.dialogs[i].code],
                                 [i \in 1..3 |-> x.dialogs[i].text],
                                 x.confirmed = "yes", x.saved = "yes")
          IN  /\ retention' = r.retention
              /\ settings' = r.settings
              /\ edit' = [done |-> TRUE, before |-> retention, session |-> x,
                          shown |-> r.shown]
    /\ edits' = edits + 1
    /\ UNCHANGED <<envvars, runvars, schedvars, cronvars, repos, batch>>

RetentionNext == SetRetention

RetentionSpec == RetentionInit /\ [][RetentionNext]_vars

\* ------------------------------------------------------- the batch cleanup
\* The number of uses of the menu entry "Cleanup old backups" explored.
MaxCleanups == 2

\* handle_cleanup_backups 277-285: the choices of the selection dialog; no
\* choice when the operator cancels it.
CleanupChoices == {"nginx", "mailcow", "both", "none"}
\* 279-283: the services the loop goes through.
services_to_cleanup(choice) ==
    IF choice = "both" THEN <<"nginx", "mailcow">> ELSE <<choice>>

NoBatch(n) ==
    [pc |-> "idle", n |-> n, selected |-> "none", services |-> <<>>,
     tried |-> <<>>, success_count |-> 0, shown |-> "none"]

CleanupInit ==
    /\ HostAtRest
    /\ NoSchedule
    /\ NoValidation
    /\ retention = DefaultRetention
    /\ settings = DefaultRetention
    /\ edits = 0
    /\ edit = [done |-> FALSE]
    /\ repos \in [Services -> SUBSET {[t |-> i, c |-> i] : i \in 1..MaxInitArchives}]
    /\ batch = NoBatch(0)

\* 236-273: the backup manager is fetched, the operator selects and confirms.
K_Start ==
    /\ batch.pc = "idle"
    /\ batch.n < MaxCleanups
    /\ \E available \in BOOLEAN, choice \in CleanupChoices, confirmed \in BOOLEAN :
        batch' =
            IF ~available
            THEN [NoBatch(batch.n + 1) EXCEPT !.pc = "done", !.shown = "error"]
            ELSE IF choice = "none" \/ ~confirmed
            THEN [NoBatch(batch.n + 1) EXCEPT !.pc = "done"]
            ELSE [NoBatch(batch.n + 1) EXCEPT !.pc = "loop", !.selected = choice,
                    !.services = services_to_cleanup(choice)]
    /\ UNCHANGED <<envvars, runvars, schedvars, cronvars, retention, settings,
                   edits, edit, repos>>

\* 286-293: one turn of the loop. An exception of prune_old_backups leaves
\* the loop for the handler of 309-311.
K_Prune ==
    /\ batch.pc = "loop"
    /\ Len(batch.tried) < Len(batch.services)
    /\ \E out \in Outcomes :
        LET service == batch.services[Len(batch.tried) + 1]
            p == prune_old_backups(out)
            tried == Append(batch.tried, [service |-> service, out |-> out])
        IN  /\ repos' \in
                IF out = "ok"
                THEN {[repos EXCEPT ![service] = kept] : kept \in PruneResults(repos[service])}
                ELSE {repos}
            /\ batch' =
                IF p = "raised"
                THEN [batch EXCEPT !.tried = tried, !.pc = "done", !.shown = "failed"]
                ELSE [batch EXCEPT !.tried = tried,
                        !.success_count = @ + (IF p = "True" THEN 1 ELSE 0)]
    /\ UNCHANGED <<envvars, runvars, schedvars, cronvars, retention, settings,
                   edits, edit>>

\* 295-307: the result shown after the loop.
K_Show ==
    /\ batch.pc = "loop"
    /\ Len(batch.tried) = Len(batch.services)
    /\ batch' = [batch EXCEPT !.pc = "done",
                    !.shown = IF batch.success_count = Len(batch.services)
                              THEN "success" ELSE "partial"]
    /\ UNCHANGED <<envvars, runvars, schedvars, cronvars, retention, settings,
                   edits, edit, repos>>

\* The handler returns to the menu.
K_Return ==
    /\ batch.pc = "done"
    /\ batch' = [batch EXCEPT !.pc = "idle"]
    /\ UNCHANGED <<envvars, runvars, schedvars, cronvars, retention, settings,
                   edits, edit, repos>>

CleanupNext == K_Start \/ K_Prune \/ K_Show \/ K_Return

CleanupSpec == CleanupInit /\ [][CleanupNext]_vars

\* ------------------------------------------- two backup runs of one service
\* Two invocations of backup_<svc>, each in a process of its own (the
\* operator's menu and the OS scheduler's automated backup): proc[p] holds
\* the locals of process p. Nothing in backup.py takes a lock or looks for
\* another run.
Invocation(v, key, t) ==
    [pc |-> "b_pre", verify |-> v, key |-> key, t |-> t, result |-> "none"]

BackupsInit ==
    /\ svc \in Services
    /\ repo \in SUBSET {[t |-> i, c |-> i] : i \in 1..MaxInitArchives}
    /\ install \in {AbsentDir, Dir(0)}
    /\ running \in {r \in BOOLEAN : r => install.exists}
    /\ snapshots = {}
    /\ now = MaxInitArchives
    /\ runs = 0
    /\ NoRun
    /\ NoValidation
    /\ NoMaintenance
    /\ crontab = [exists |-> FALSE, lines |-> <<>>]
    /\ temp_file = <<>>
    /\ calls = 0
    /\ call = [fn |-> "none"]
    /\ before = crontab
    /\ \E v1 \in BOOLEAN, v2 \in BOOLEAN, k1 \in BOOLEAN, k2 \in BOOLEAN :
        proc = <<Invocation(v1, k1, MaxInitArchives + 1),
                 Invocation(v2, k2, MaxInitArchives + 2)>>
    /\ log = <<>>

\* Process p moves to pc `to`; it returns `ret` when that ends its run.
Moves(p, to, ret) ==
    /\ proc' = [proc EXCEPT ![p].pc = to, ![p].result = ret]
    /\ UNCHANGED <<svc, install, running, snapshots, now, runs, runvars, crontab,
                   temp_file, calls, call, before, log, cronvars, maintvars>>

\* backup.py 320-322 / 375-377 in process p.
P_Preflight(p) ==
    /\ proc[p].pc = "b_pre"
    /\ \E free \in FreeGB, sshOk \in BOOLEAN :
        IF pre_backup_checks(check_disk_space(free, RequiredBackupGB(svc)),
                             sshOk, proc[p].key).ok
        THEN Moves(p, "b_path", "none")
        ELSE Moves(p, "done", "False")
    /\ UNCHANGED repo

\* backup.py 324-327 / 379-389 in process p.
P_Path(p) ==
    /\ proc[p].pc = "b_path"
    /\ IF (svc = "nginx" /\ install.exists) \/ (svc = "mailcow" /\ HasCompose(install))
       THEN Moves(p, IF svc = "nginx" THEN "b_create" ELSE "b_script", "none")
       ELSE Moves(p, "done", "False")
    /\ UNCHANGED repo

\* backup.py 395-420 in process p.
P_Script(p) ==
    /\ proc[p].pc = "b_script"
    /\ \E out \in Outcomes, dirs \in BOOLEAN :
        IF out = "ok" /\ dirs
        THEN Moves(p, "b_create", "none")
        ELSE Moves(p, "done", "False")
    /\ UNCHANGED repo

\* backup.py 341-343 / 427-428 in process p: `borg create` is started.
P_Create(p) ==
    /\ proc[p].pc = "b_create"
    /\ Moves(p, "b_creating", "none")
    /\ UNCHANGED repo

\* `borg create` of process p ends.
P_Created(p) ==
    /\ proc[p].pc = "b_creating"
    /\ \E out \in Outcomes :
        IF create_borg_backup(out)
        THEN /\ repo' = repo \cup {[t |-> proc[p].t, c |-> install.c]}
             /\ Moves(p, IF proc[p].verify THEN "b_verify" ELSE "b_prune", "none")
        ELSE /\ UNCHANGED repo
             /\ Moves(p, "done", "False")

\* backup.py 345-349 / 430-434 in process p.
P_Verify(p) ==
    /\ proc[p].pc = "b_verify"
    /\ \E out \in Outcomes :
        LET v == verify_backup(out) IN
        IF v = "True"
        THEN Moves(p, "b_prune", "none")
        ELSE Moves(p, "done", IF v = "False" THEN "False" ELSE Escaped(svc))
    /\ UNCHANGED repo

\* backup.py 351-352 / 436-437 in process p: `borg prune` is started.
P_Prune(p) ==
    /\ proc[p].pc = "b_prune"
    /\ Moves(p, "b_pruning", "none")
    /\ UNCHANGED repo

\* `borg prune` of process p ends.
P_Pruned(p) ==
    /\ proc[p].pc = "b_pruning"
    /\ \E out \in Outcomes :
        /\ repo' \in IF out = "ok" THEN PruneResults(repo) ELSE {repo}
        /\ Moves(p, "done",
                 IF prune_old_backups(out) = "raised" THEN Escaped(svc) ELSE "True")

BackupsNext ==
    \E p \in Procs :
        \/ P_Preflight(p) \/ P_Path(p) \/ P_Script(p) \/ P_Create(p)
        \/ P_Created(p) \/ P_Verify(p) \/ P_Prune(p) \/ P_Pruned(p)

BackupsSpec == BackupsInit /\ [][BackupsNext]_vars

\* ------------------------------------------------------------------ claims
InRestore == op = "restore"
InBackup == op = "backup"
Did(o, out) == Event(o, out) \in Range(trace)
Destructive == {"stop", "snapshot", "rmtree", "extract", "move", "script", "start"}
\* Extraction and relocation of the selected archive both succeeded.
Relocated == Did("extract", "ok") /\ (Did("move", "ok") \/ Did("script", "ok"))

\* C1: a restore called with an archive name that is not in the repository
\* listing fails and leaves the install directory as it was before the run.
C1_MissingNameLeavesInstall ==
    (InRestore /\ pc \notin {"idle", "r_list"}
        /\ backup_name # Latest /\ backup_name \notin Range(listing))
    => /\ install = pre.install
       /\ pc = "done" => result # "True"

\* C2: the install directory is removed only after the safety snapshot copy
\* was confirmed complete, so the pre-restore install is always either still
\* in the install path or in a complete safety snapshot of this run.
C2_RemoveOnlyAfterSnapshot ==
    InRestore =>
        /\ "rmtree" \in Ops(trace) => backup_path # <<>>
        /\ pre.install.exists =>
              \/ install = pre.install
              \/ [ts |-> now, d |-> pre.install, whole |-> TRUE] \in snapshots

\* C3: in a restore run the install directory differs from what it was when
\* the run started only after the extraction of the selected archive
\* reported success.
C3_DiscardOnlyAfterExtraction ==
    (InRestore /\ install # pre.install) => Did("extract", "ok")

\* C4: a restore run whose listing is empty or whose free-space check fails
\* returns False with no service stop, snapshot, deletion, extraction,
\* relocation or start, and with the install, the snapshots and the run state
\* of the service as they were.
C4_PreflightFailureIsHarmless ==
    (InRestore /\ pc = "done"
        /\ \/ (listing = <<>> /\ ~Did("list", "timeout"))
           \/ Did("disk", "nonzero"))
    => /\ result = "False"
       /\ Ops(trace) \cap Destructive = {}
       /\ install = pre.install
       /\ snapshots = pre.snapshots
       /\ running = pre.running
       /\ temp = "absent"

C4_Witness ==
    /\ InRestore /\ pc = "done" /\ Did("disk", "nonzero")
    /\ pre.install.exists /\ pre.running /\ listing # <<>>

\* C5: once the safety snapshot of a restore run is taken, no step of the run
\* changes or removes any snapshot, and the only changes of the install path
\* are its removal and its population from the selected archive: a failed
\* run never puts the snapshot back.
C5_SnapshotUntouched ==
    [][(InRestore /\ backup_path # <<>> /\ pc # "done")
        => /\ snapshots' = snapshots
           /\ install' # install =>
                \/ install' = AbsentDir
                \/ install'.c = ContentOf(repo, selected[1])]_vars

C5_Witness ==
    /\ InRestore /\ pc = "done" /\ result = "False" /\ backup_path # <<>>
    /\ Did("extract", "nonzero")
    /\ [ts |-> now, d |-> pre.install, whole |-> TRUE] \in snapshots
    /\ install # pre.install

\* C6: restore_nginx extracts into the temporary directory only: the extract
\* step leaves the install path as it is, the relocation into the install
\* path happens only after the extraction reported success, and after a
\* failed extraction nothing is relocated.
C6_ExtractIntoStagingOnly ==
    /\ [](svc = "nginx" /\ InRestore =>
            /\ "move" \in Ops(trace) => Did("extract", "ok")
            /\ (Did("extract", "nonzero") \/ Did("extract", "timeout")) =>
                  /\ "move" \notin Ops(trace)
                  /\ install \in {pre.install, AbsentDir})
    /\ [][(svc = "nginx" /\ pc = "r_extract") => install' = install]_vars

C6_Witness ==
    /\ svc = "nginx" /\ InRestore /\ pc = "r_start"
    /\ Did("extract", "ok") /\ Did("move", "ok")
    /\ install = Dir(ContentOf(repo, selected[1]))

\* C7: a restore called with "latest" selects the archive of the listing
\* with the maximum creation time, in whatever order the listing is returned.
C7_LatestIsNewest ==
    (InRestore /\ backup_name = Latest /\ selected # <<>>)
    => selected[1] = MaxOf(Range(listing))

\* C8: when extraction and relocation succeeded, the restore is never
\* reported as failed, however the start and the verification of the service
\* ended (non-zero exit, timeout, nothing running).
C8_StartFailureIsDegradedSuccess ==
    (InRestore /\ pc = "done" /\ Relocated) => result = "True"

AllPassed(cs) ==
    /\ {c.name : c \in Range(cs)} = {"disk", "ssh", "passphrase"}
    /\ \A c \in Range(cs) : c.ok
SomeFailed(cs) == \E c \in Range(cs) : ~c.ok

\* C9: in a backup run the archive is created (and the Mailcow backup script,
\* the verification and the prune are run) only if all three preflight checks
\* passed; a failed check ends the run with False and nothing invoked.
C9_CreateOnlyAfterPreflight ==
    InBackup =>
        /\ trace # <<>> => AllPassed(checks)
        /\ SomeFailed(checks) => pc = "done" /\ result = "False" /\ trace = <<>>

C9_Witness ==
    /\ InBackup /\ pc = "done" /\ result = "False" /\ trace = <<>>
    /\ checks = <<Check("disk", TRUE), Check("ssh", TRUE), Check("passphrase", FALSE)>>
    /\ install.exists

\* C10 as stated: every invocation of the preflight evaluates all three
\* checks.
C10_AllChecksRun ==
    (InBackup /\ pc # "b_pre") => Len(checks) = 3

\* C10 as amended: the preflight evaluates the checks in the order free
\* space, reachability, passphrase and returns at the first failing one: a
\* check is evaluated only if every earlier check passed, and the checks
\* after the first failing one are not evaluated.
C10_ChecksStopAtFirstFailure ==
    (InBackup /\ pc # "b_pre") =>
        /\ Len(checks) \in 1..3
        /\ \A i \in 1..Len(checks) :
              /\ checks[i].name = <<"disk", "ssh", "passphrase">>[i]
              /\ i < Len(checks) => checks[i].ok
        /\ Len(checks) < 3 => ~checks[Len(checks)].ok

C10_Witness ==
    /\ InBackup /\ pc = "done"
    /\ checks = <<Check("disk", TRUE), Check("ssh", FALSE)>>
    /\ ~borg_env.key

\* The archive this backup run created.
Created == [t |-> now, c |-> install.c]
CreateFailed == Did("create", "nonzero") \/ Did("create", "timeout")
VerifyFailed == Did("verify", "nonzero") \/ Did("verify", "timeout")

\* C11: when the archive-create command exits non-zero or times out, the
\* backup run ends with False and neither the verification nor the prune is
\* invoked in that run.
C11_CreateFailureEndsRun ==
    (InBackup /\ CreateFailed)
    => /\ pc = "done"
       /\ result = "False"
       /\ "verify" \notin Ops(trace)
       /\ "prune" \notin Ops(trace)
       /\ trace[Len(trace)].o = "create"

C11_Witness ==
    /\ InBackup /\ pc = "done" /\ Did("create", "timeout") /\ verify
    /\ AllPassed(checks)

\* C12 as stated: when the archive was created and its verification failed,
\* the run's result is neither a success nor a failure, and the archive stays
\* in the repository.
C12_VerifyFailureIsThirdResult ==
    (InBackup /\ pc = "done" /\ Did("create", "ok") /\ VerifyFailed)
    => /\ result \notin {"True", "False"}
       /\ Created \in repo

\* C12 as amended: when the archive was created and its verification failed,
\* the run ends as a failure (False; in backup_nginx a timeout of the verify
\* command leaves as an exception), the prune is not run, and the archive
\* stays in the repository.
C12_VerifyFailureFailsRunKeepsArchive ==
    (InBackup /\ Did("create", "ok") /\ VerifyFailed)
    => /\ pc = "done"
       /\ result \in {"False", "raised"}
       /\ result = "raised" <=> (svc = "nginx" /\ Did("verify", "timeout"))
       /\ Created \in repo

C12_Witness ==
    /\ InBackup /\ pc = "done" /\ Did("create", "ok") /\ Did("verify", "nonzero")
    /\ result = "False" /\ Created \in repo

\* C13 as stated: the prune is invoked in every backup run in which the
\* archive was created, whether its verification succeeded or failed.
C13_PruneAfterEveryCreate ==
    (InBackup /\ pc = "done" /\ Did("create", "ok")) => "prune" \in Ops(trace)

\* C13 as amended: the prune is invoked in exactly the backup runs in which
\* the archive was created and its verification, when one was requested,
\* succeeded; after a failed verification no prune is invoked.
C13_PruneOnlyAfterVerified ==
    InBackup =>
        /\ "prune" \in Ops(trace) =>
              Did("create", "ok") /\ (verify => Did("verify", "ok"))
        /\ (pc = "done" /\ Did("create", "ok") /\ (verify => Did("verify", "ok")))
              => "prune" \in Ops(trace)
        /\ VerifyFailed => "prune" \notin Ops(trace)

C13_Witness ==
    /\ InBackup /\ pc = "done" /\ Did("create", "ok") /\ Did("verify", "timeout")
    /\ "prune" \notin Ops(trace)

\* C14: when the archive was created and verified, the run reports success
\* whatever the prune did: a prune that exits non-zero or times out leaves
\* the result True.
C14_PruneNeverChangesResult ==
    (InBackup /\ pc = "done" /\ Did("create", "ok") /\ Did("verify", "ok")
        /\ "prune" \in Ops(trace))
    => result = "True"

\* Position of a stage command in the order of a backup run.
StageNo(o) ==
    IF o = "script" THEN 1 ELSE IF o = "create" THEN 2
    ELSE IF o = "verify" THEN 3 ELSE 4

\* C15: within one backup run the stages occur in the order preflight,
\* (Mailcow script,) archive-create, verify, prune: each is entered at most
\* once, only after the preflight passed and the stage before it completed,
\* and once the run has ended no stage is entered any more.
C15_StagesInOrder ==
    /\ [](InBackup =>
            /\ \A i, j \in 1..Len(trace) :
                  i < j => StageNo(trace[i].o) < StageNo(trace[j].o)
            /\ \A i \in 1..Len(trace) : i < Len(trace) => trace[i].out = "ok"
            /\ trace # <<>> => AllPassed(checks)
            /\ pc = "b_pre" <=> checks = <<>>)
    /\ [][(InBackup /\ pc = "done") => (pc' = "idle" /\ trace' = <<>>)]_vars

C15_Witness ==
    /\ InBackup /\ pc = "done" /\ svc = "mailcow"
    /\ [i \in 1..Len(trace) |-> trace[i].o] = <<"script", "create", "verify", "prune">>

\* ---- the scheduler
\* The job lines of the table tab that carry the command cmd.
EntriesFor(tab, cmd) ==
    {i \in 1..Len(tab.lines) :
        LET parts == tab.lines[i].parts IN
        Len(parts) = 6 /\ parts[1][1] # "#" /\ parts[6] = cmd}
\* The schedule a job line carries.
ScheduleAt(tab, i) == SubSeq(tab.lines[i].parts, 1, 5)
ManagedCommands == {build_backup_command(s) : s \in MenuServices} \cup {CleanupCommand}
Mutations == {"schedule_backup", "schedule_cleanup", "remove_schedule"}

\* C16: after any sequence of schedule_backup, schedule_cleanup and
\* remove_schedule calls the table holds at most one job per managed job
\* type (the four menu services and cleanup), and after a successful
\* schedule call the one job of its type carries the schedule of that call.
C16_OneJobPerType ==
    /\ \A cmd \in ManagedCommands : Cardinality(EntriesFor(crontab, cmd)) <= 1
    /\ (call.fn \in {"schedule_backup", "schedule_cleanup"} /\ call.ret = "True")
        => LET cmd == IF call.fn = "schedule_cleanup" THEN CleanupCommand
                      ELSE build_backup_command(call.arg)
           IN  \E i \in 1..Len(crontab.lines) :
                   /\ EntriesFor(crontab, cmd) = {i}
                   /\ ScheduleAt(crontab, i) = split(call.schedule)

\* A line the SchedulingManager did not write: not empty, not of its header,
\* not one of its marker comments, not a job with one of its commands.
Unmanaged(l) ==
    /\ l.parts # <<>>
    /\ l \notin Range(HeaderLines)
    /\ ~(Len(l.parts) >= 2 /\ l.parts[1] = <<"#">> /\ l.parts[2] = <<"server-manager:">>)
    /\ ~(Len(l.parts) = 6 /\ l.parts[6] \in ManagedCommands)

\* C17: every rewrite of the table by schedule_backup, schedule_cleanup or
\* remove_schedule leaves every unmanaged line of the table (foreign job
\* lines, comments, environment assignments) in the table, unchanged.
C17_UnmanagedLinesSurvive ==
    (call.fn \in Mutations /\ call.wrote /\ call.ret = "True")
    => \A l \in Range(before.lines) : Unmanaged(l) => l \in Range(crontab.lines)

\* C18: schedule_backup and schedule_cleanup called with a schedule that
\* fails validation return False without running `crontab <file>`: the table
\* is what it was before the call.
C18_InvalidScheduleWritesNothing ==
    (call.fn \in {"schedule_backup", "schedule_cleanup"}
        /\ ~validate_cron_schedule(call.schedule))
    => /\ call.ret = "False"
       /\ ~call.wrote
       /\ crontab = before

C18_Witness ==
    /\ call.fn = "schedule_backup" /\ call.schedule = Hour24 /\ call.ret = "False"
    /\ EntriesFor(before, build_backup_command(call.arg)) # {}
    /\ crontab = before

\* ---- the grammar of a cron field: "*", a number, a range a-b, a list of
\* numbers and ranges, any of them with a step "/n"; the numbers within the
\* bounds of the position.
FieldLow(pos) == <<0, 0, 1, 1, 0>>[pos]
FieldHigh(pos) == <<59, 23, 31, 12, 6>>[pos]
IsNumeral(s) == s # <<>> /\ \A i \in 1..Len(s) : s[i] \in Cls(0, 9)
DigitValue(ch) == CHOOSE v \in 0..9 : DigitSeq[v + 1] = ch
RECURSIVE ValueFrom(_, _)
ValueFrom(s, acc) ==
    IF s = <<>> THEN acc ELSE ValueFrom(Tail(s), 10 * acc + DigitValue(Head(s)))
Value(s) == ValueFrom(s, 0)
InBounds(s, pos) == IsNumeral(s) /\ Value(s) \in FieldLow(pos)..FieldHigh(pos)
GrammarItem(s, pos) ==
    LET ends == Pieces(s, "-") IN
    \/ Len(ends) = 1 /\ InBounds(ends[1], pos)
    \/ /\ Len(ends) = 2 /\ InBounds(ends[1], pos) /\ InBounds(ends[2], pos)
       /\ Value(ends[1]) <= Value(ends[2])
GrammarField(f, pos) ==
    LET bySlash == Pieces(f, "/") IN
    /\ Len(bySlash) \in {1, 2}
    /\ Len(bySlash) = 2 => IsNumeral(bySlash[2]) /\ Value(bySlash[2]) >= 1
    /\ \/ bySlash[1] = <<"*">>
       \/ LET items == Pieces(bySlash[1], ",") IN
          \A i \in 1..Len(items) : GrammarItem(items[i], pos)
CronGrammar(s) ==
    LET parts == split(s) IN
    Len(parts) = 5 /\ \A pos \in 1..5 : GrammarField(parts[pos], pos)

\* C19: _validate_cron_schedule accepts a string if and only if it has
\* exactly five whitespace-separated fields and each field matches the
\* number / range / step / wildcard grammar of its position.
C19_ValidatorMatchesGrammar ==
    cron_out # "none" => (cron_out = "True" <=> CronGrammar(cron_in))

\* ---- two calls at the same time
BothReturned == \A p \in Procs : proc[p].pc = "done"
At(p, name) == CHOOSE i \in 1..Len(log) : log[i] = <<p, name>>
Took(p, name) == \E i \in 1..Len(log) : log[i] = <<p, name>>
HasJobOf(p) == EntriesFor(crontab, proc[p].cmd) # {}

\* C20: two schedule calls on different job types, running at the same
\* time, both read the whole table and both write the whole table, and
\* nothing orders them: when both have returned True, the table is the copy
\* of the call that installed last, so it holds that call's job, and it holds
\* the other call's job exactly if the last call read the table after the
\* other one installed it.  A call that read earlier erases the other's job.
C20_LastWriterWins ==
    (proc # <<>> /\ BothReturned /\ \A p \in Procs : proc[p].ret = "True")
    => \A p \in Procs, q \in Procs :
          (p # q /\ At(q, "install") < At(p, "install"))
          => /\ crontab = [exists |-> TRUE, lines |-> crontab_text(proc[p].jobs)]
             /\ HasJobOf(p)
             /\ HasJobOf(q) <=> At(q, "install") < At(p, "read")

C20_Witness ==
    /\ proc # <<>> /\ BothReturned /\ \A p \in Procs : proc[p].ret = "True"
    /\ At(2, "read") < At(1, "install") /\ At(1, "install") < At(2, "install")
    /\ HasJobOf(2) /\ ~HasJobOf(1)

\* ---- results, stop failures, retries, the service during a backup
\* C23: every backup or restore run ends by returning True or False to its
\* caller, whatever stage failed and however (non-zero exit, timeout): no
\* exception leaves backup_nginx, backup_mailcow, restore_nginx or
\* restore_mailcow.
C23_RunsAlwaysReturn ==
    pc = "done" => result \in {"True", "False"}

\* C24: when stopping the service fails during a restore run, no later stage
\* of the run is executed: no safety snapshot, no deletion of the install, no
\* extraction, no relocation, no start.
C24_FailedStopEndsRun ==
    (InRestore /\ (Did("stop", "nonzero") \/ Did("stop", "timeout")))
    => Ops(trace) \cap {"snapshot", "rmtree", "extract", "move", "script", "start"} = {}

\* C25: within one backup or restore run no external operation is invoked
\* twice: list, stop, extract, start, archive-create, verify and prune each
\* appear at most once among the operations of the run, also after a failure
\* or a timeout of that operation.
C25_NoRetry ==
    (InRestore \/ InBackup)
    => \A i, j \in 1..Len(trace) : i # j => trace[i].o # trace[j].o

C25_Witness ==
    /\ InBackup /\ pc = "done" /\ result = "False"
    /\ Did("create", "timeout") /\ Len(trace) = Cardinality(Ops(trace))

\* C28: backup_nginx never stops or starts the service: at every point of
\* the run, on success and on every failure path, the containers run exactly
\* if they ran when the run began, and no stop or start is among the
\* operations of the run.
C28_NginxBackupLeavesServiceRunning ==
    (InBackup /\ svc = "nginx")
    => /\ running = pre.running
       /\ Ops(trace) \cap {"stop", "start"} = {}

C28_Witness ==
    /\ InBackup /\ svc = "nginx" /\ pc = "done" /\ result = "True"
    /\ Did("create", "ok") /\ pre.running /\ running

\* C26: the keep-counts daily, weekly and monthly are each at least 1 after
\* any sequence of retention edits that starts from the defaults; an edit
\* stores new counts only when all three dialogs were answered with an
\* integer of at least 1 and the operator confirmed, and then it stores
\* exactly the three integers entered; every other edit leaves all three
\* counts as they were.
\* The texts that are an integer of at least 1, read independently of int():
\* an optional sign, then digits (underscores between them allowed), with
\* whitespace around, denoting a value of at least 1.
IsWholeNumberText(text) ==
    \E a, b \in 0..Len(text) :
        /\ a + b < Len(text)
        /\ \A i \in 1..a : text[i] \in Whitespace
        /\ \A i \in (Len(text) - b + 1)..Len(text) : text[i] \in Whitespace
        /\ LET core == SubSeq(text, a + 1, Len(text) - b)
               body == IF core[1] \in {"+", "-"} THEN Tail(core) ELSE core
           IN  /\ core[1] # "-"
               /\ IsDigits(body)
               /\ \E i \in 1..Len(body) : body[i] \in Cls(1, 9)
AllValid ==
    /\ \A i \in 1..3 :
          /\ edit.session.dialogs[i].code = "ok"
          /\ IsWholeNumberText(edit.session.dialogs[i].text)
    /\ edit.session.confirmed = "yes"
Entered(i) == int(edit.session.dialogs[i].text).n
C26_RetentionCountsValid ==
    /\ \A k \in {"daily", "weekly", "monthly"} : retention[k] \in Nat /\ retention[k] >= 1
    /\ edit.done =>
        IF AllValid
        THEN retention = [daily |-> Entered(1), weekly |-> Entered(2),
                          monthly |-> Entered(3)]
        ELSE retention = edit.before
C26_Witness ==
    /\ edit.done /\ edits = 2
    /\ edit.before # DefaultRetention
    /\ edit.session.dialogs[1] = Answered(<<"1", "2">>)
    /\ edit.session.dialogs[2] = Answered(<<"0">>)
    /\ retention = edit.before

\* C22: when a batch cleanup over several services has ended, prune has been invoked for every service of the batch, whatever the
\* outcome of the prunes before it (non-zero exit or timeout), and the
\* operator has been shown the number of services pruned successfully out of
\* the number attempted.
PrunedOk(tried) == Cardinality({i \in 1..Len(tried) : tried[i].out = "ok"})
C22_BatchPrunesEveryService ==
    (batch.pc = "done" /\ Len(batch.services) > 1)
    => /\ Len(batch.tried) = Len(batch.services)
       /\ batch.shown \in {"success", "partial"}
       /\ batch.success_count = PrunedOk(batch.tried)
       /\ (batch.shown = "success") <=> (batch.success_count = Len(batch.services))

\* C21: the archive repository of a service is never written by two
\* operations at once: two backup runs for the same service are never both
\* inside the archive-create or the prune stage.
Writing(p) == proc[p].pc \in {"b_creating", "b_pruning"}
C21_OneWriterPerRepository == ~(Writing(1) /\ Writing(2))

\* The job lines of a table: six parts, not a comment.
JobsIn(tab) ==
    {i \in 1..Len(tab.lines) :
        LET parts == tab.lines[i].parts IN Len(parts) = 6 /\ parts[1][1] # "#"}
\* The type and the command of the job the last schedule call is about.
CallType == IF call.fn = "schedule_cleanup" THEN CleanupType ELSE BackupType(call.arg)
CallCommand ==
    IF call.fn = "schedule_cleanup" THEN CleanupCommand ELSE build_backup_command(call.arg)

\* C29: a successful schedule_backup or schedule_cleanup for job type T
\* replaces or inserts only the job of T: every job that was in the table
\* before the call and is not the job of T (the jobs of the other services,
\* the cleanup job, jobs written by hand) is in the table after the call with
\* the same five schedule fields and the same command.
C29_OtherJobsKept ==
    (call.fn \in {"schedule_backup", "schedule_cleanup"} /\ call.ret = "True")
    => \A i \in JobsIn(before) :
           before.lines[i].parts[6] # CallCommand
           => \E j \in JobsIn(crontab) : crontab.lines[j].parts = before.lines[i].parts

\* The job list the last schedule call handed to _write_crontab.
Written ==
    Append(Without(get_current_schedule(crontab_l(before, call.listOk)).jobs, CallType),
           NewJob(CallType, CallCommand, split(call.schedule)))

\* C30: parsing the table that _write_crontab wrote for a job list returns
\* that job list: as many jobs, and for each job the same type, the same five
\* schedule fields and the same command, for the jobs schedule_backup and
\* schedule_cleanup create.
C30_WriteParseRoundTrip ==
    (call.fn \in {"schedule_backup", "schedule_cleanup"} /\ call.wrote /\ call.ret = "True")
    => parse_crontab(crontab.lines) = Written

\* C31: every expression of get_schedule_presets is accepted by
\* _validate_cron_schedule, so every schedule a menu offers can be
\* scheduled.
C31_PresetsAccepted ==
    (cron_out # "none" /\ cron_in \in PresetExpressions) => cron_out = "True"

\* C32: when the table holds jobs and `crontab -l` exits non-zero, schedule_backup
\* and schedule_cleanup do not write the table: it is after the call what
\* it was before, so no job is lost because a read failed.
C32_FailedReadWritesNothing ==
    (call.fn \in {"schedule_backup", "schedule_cleanup"}
        /\ JobsIn(before) # {} /\ ~call.listOk)
    => /\ ~call.wrote
       /\ crontab = before

\* The jobs _parse_crontab finds in the table as it was before the last call.
JobsBefore == parse_crontab(before.lines)
HeldBefore(type) == \E i \in 1..Len(JobsBefore) : JobsBefore[i].type = type

\* C33: remove_schedule(T) on a table that holds no job of type T does not
\* write the table, and returns False when the table exists and True when
\* there is no table; when the table holds jobs of type T and the call
\* succeeds, the jobs of the table are afterwards the jobs it held before
\* without those identified as T, in the same order.
C33_RemoveOnlyTheType ==
    call.fn = "remove_schedule"
    => /\ ~before.exists
            => call.ret = "True" /\ ~call.wrote /\ crontab = before
       /\ (before.exists /\ ~HeldBefore(call.arg))
            => call.ret = "False" /\ ~call.wrote /\ crontab = before
       /\ (before.exists /\ HeldBefore(call.arg))
            => /\ call.wrote
               /\ call.ret = "True"
                    => parse_crontab(crontab.lines) = Without(JobsBefore, call.arg)
               /\ call.ret = "False" => crontab = before

\* C34: disable_all_schedules disables only the schedules the
\* SchedulingManager manages: every unmanaged line that is in the table
\* before the call is in the table after it.
C34_DisableKeepsUnmanaged ==
    call.fn = "disable_all_schedules"
    => \A l \in Range(before.lines) : Unmanaged(l) => l \in Range(crontab.lines)

\* C35: a restore run that has stopped a running service and fails while the
\* install directory is still what it was when the run began has started
\* the service again when it returns.
C35_FailedRestoreRestartsService ==
    (InRestore /\ pc = "done" /\ result # "True"
        /\ pre.running /\ Did("stop", "ok") /\ install = pre.install)
    => running

\* C36: when a restore run returns, the temporary staging directory it
\* created is gone, whether the run succeeded or failed at the extraction,
\* at the search for the extracted tree, at the relocation or at the start.
C36_TempRemovedOnReturn ==
    (InRestore /\ pc = "done") => temp = "absent"
C36_Witness ==
    /\ InRestore /\ pc = "done" /\ result = "False"
    /\ Did("extract", "ok") /\ "start" \notin Ops(trace)
    /\ temp = "absent"

\* C37: the credential check of the preflight passes only when get_secret
\* resolved a non-empty passphrase, whatever the inherited environment
\* holds.
C37_CredentialCheckNeedsPassphrase ==
    (InBackup /\ Check("passphrase", TRUE) \in Range(checks)) => borg_env.secret

\* C38: a backup run returns True only if the `borg create` of that run
\* exited zero and, when verify is set, the verify listing of the archive it
\* created exited zero too; the archive of the run is then in the
\* repository.
C38_SuccessMeansArchived ==
    (InBackup /\ pc = "done" /\ result = "True")
    => /\ Did("create", "ok")
       /\ verify => Did("verify", "ok")
       /\ now \in Names(repo)
C38_Witness ==
    /\ InBackup /\ pc = "done" /\ result = "True"
    /\ verify /\ Did("verify", "ok") /\ Did("prune", "nonzero")
    /\ now \in Names(repo)
====
